---- MODULE Spec2Model ----
(***************************************************************************)
(* Model of the meme-explaining Telegram bot (src/bot.py), of the group    *)
(* detector (src/group_id_detector.py, src/simple_group_detector.py) and   *)
(* of the chat exporters (src/bot_export.py, src/export_auto.py,           *)
(* src/export_chat_history.py).  They are separate processes that share no *)
(* state: Spec is the bot (FairSpec the bot whose sends succeed and whose  *)
(* awaits return), DetectorSpec the detector (ConcurrentSpec the detector  *)
(* with its handlers dispatched as tasks), ExportSpec an export run.       *)
(*                                                                         *)
(* In the bot one update is handled at a time.  A handler invocation is    *)
(* cut at its awaits (get_file; session.get, response.read and the close   *)
(* of the session in download_image; reply_text; the remote model call);   *)
(* the synchronous code between two awaits is one action.                  *)
(*                                                                         *)
(* Strings that the code inspects (message text, MIME types, trigger       *)
(* phrases) are sequences of Unicode code points, so that lower(), strip(),*)
(* startswith(), replace() and the substring test are computed as Python   *)
(* computes them.  The empty sequence stands for both None and "" where    *)
(* the code only tests truthiness.                                         *)
(***************************************************************************)
EXTENDS Naturals, Integers, Sequences, FiniteSets, TLC

VARIABLES
    SHOW_CHAT_ID,     \* configuration flag, read once at start (bot.py:26)
    handler,          \* the handler that is running or ran last
    pc,               \* position of that handler
    update,           \* the update it was given
    selected,         \* the attachment get_image_from_message selected
    image_data,       \* result of get_image_from_message
    text_to_analyze,  \* result of get_text_from_message
    downloads,        \* attachment downloads whose outcome is known (get_file
                      \* raised, or download_image has its bytes or its
                      \* exception), in order, each with that outcome
    calls,            \* analyze_*_with_openai calls, in order
    explanation,      \* value returned by the analyze call
    replies,          \* update.message.reply_text calls, in order
    escaped           \* an exception left the handler

VARIABLES
    groups_data,      \* the detector's in-memory store (groups, last_updated)
    groups_file,      \* what detected_groups.json holds
    now,              \* the detector's clock when the last event ended
    phase,            \* "constructed" (before the startup scan), "polling",
                      \* or "failed" (the start raised, nothing runs)
    event             \* the update or buffer the detector handled last, with
                      \* the status the chat's record had before (was), the
                      \* save_group_info calls made (saved) and the values
                      \* datetime.now() returned to it, in order (readings)

bot_vars == <<SHOW_CHAT_ID, handler, pc, update, selected, image_data, text_to_analyze,
              downloads, calls, explanation, replies, escaped>>

VARIABLES
    tasks,            \* the detector's handler invocations dispatched as tasks
    running           \* the task that holds the event loop, 0 when none does

detector_vars == <<groups_data, groups_file, now, phase, event>>

dispatch_vars == <<tasks, running>>

VARIABLES
    script,             \* the exporter that runs: "bot_export", "export_auto"
                        \* or "export_chat_history"
    openai_api_key,     \* whether OPENAI_API_KEY is set (export_chat_history.py)
    export_pc,          \* the await the export run is suspended at, "loop"
                        \* before an iteration of the loop, "done" at the end
    history,            \* the objects Telegram has delivered to the exporter
    messages,           \* the local list `messages` filtered from the batch
    index,              \* number of `messages` the loop has gone through
    exported_messages,  \* self.exported_messages
    json_file,          \* the *.json file: absent, or the array dumped to it
    jsonl_file          \* the *.jsonl file: absent, or the text written to it

export_vars == <<script, openai_api_key, export_pc, history, messages, index, exported_messages,
                 json_file, jsonl_file>>

vars == <<SHOW_CHAT_ID, handler, pc, update, selected, image_data, text_to_analyze,
          downloads, calls, explanation, replies, escaped,
          groups_data, groups_file, now, phase, event, tasks, running,
          script, openai_api_key, export_pc, history, messages, index,
          exported_messages, json_file, jsonl_file>>

-----------------------------------------------------------------------------
(* Python string operations on sequences of code points.                   *)

\* str.lower() on one character: Latin A-Z, Cyrillic U+0410-U+042F, U+0401.
LowerChar(c) ==
    IF c >= 65 /\ c <= 90 THEN c + 32
    ELSE IF c >= 1040 /\ c <= 1071 THEN c + 32
    ELSE IF c = 1025 THEN 1105
    ELSE c

lower(s) == [i \in 1..Len(s) |-> LowerChar(s[i])]

\* str.isspace() for the characters below U+0250.
IsSpace(c) == c \in {9, 10, 11, 12, 13, 28, 29, 30, 31, 32, 133, 160}

RECURSIVE lstrip(_)
lstrip(s) == IF s # <<>> /\ IsSpace(Head(s)) THEN lstrip(Tail(s)) ELSE s

RECURSIVE rstrip(_)
rstrip(s) ==
    IF s # <<>> /\ IsSpace(s[Len(s)]) THEN rstrip(SubSeq(s, 1, Len(s) - 1)) ELSE s

strip(s) == rstrip(lstrip(s))

startswith(s, p) == Len(p) <= Len(s) /\ SubSeq(s, 1, Len(p)) = p

\* p in s
contains(s, p) ==
    \E i \in 1..(Len(s) - Len(p) + 1) : SubSeq(s, i, i + Len(p) - 1) = p

\* s.replace(old, ''): every non-overlapping occurrence, left to right.
RECURSIVE remove(_, _)
remove(s, old) ==
    IF s = <<>> THEN <<>>
    ELSE IF startswith(s, old) THEN remove(SubSeq(s, Len(old) + 1, Len(s)), old)
    ELSE <<Head(s)>> \o remove(Tail(s), old)

-----------------------------------------------------------------------------
(* Constants of the program.                                               *)

\* "/explain"
CommandExplain == <<47, 101, 120, 112, 108, 97, 105, 110>>

\* "/start"
CommandStart == <<47, 115, 116, 97, 114, 116>>

\* "image/"
ImagePrefix == <<105, 109, 97, 103, 101, 47>>

\* bot.py:48-54, in the order of the list:
\*   "mozhno poyasnitel'nuyu brigadu", "mpb", "poyasnitel'nuyu brigadu",
\*   "poyasnitel'naya brigada", "ne ponyal"  (Cyrillic, lower case)
TRIGGER_PHRASES ==
    << <<1084, 1086, 1078, 1085, 1086, 32, 1087, 1086, 1103, 1089, 1085, 1080,
         1090, 1077, 1083, 1100, 1085, 1091, 1102, 32, 1073, 1088, 1080, 1075,
         1072, 1076, 1091>>,
       <<1084, 1087, 1073>>,
       <<1087, 1086, 1103, 1089, 1085, 1080, 1090, 1077, 1083, 1100, 1085, 1091,
         1102, 32, 1073, 1088, 1080, 1075, 1072, 1076, 1091>>,
       <<1087, 1086, 1103, 1089, 1085, 1080, 1090, 1077, 1083, 1100, 1085, 1072,
         1103, 32, 1073, 1088, 1080, 1075, 1072, 1076, 1072>>,
       <<1085, 1077, 32, 1087, 1086, 1085, 1103, 1083>> >>

\* any(phrase in s for phrase in TRIGGER_PHRASES)
any_phrase_in(s) ==
    \E k \in 1..Len(TRIGGER_PHRASES) : contains(s, TRIGGER_PHRASES[k])

-----------------------------------------------------------------------------
(* Inputs: the updates the handlers are given.                             *)

MaxWords == 2

\* Pieces the message texts are built from:
\*   "/explain", "MPb" (a trigger phrase in mixed case), "mp" (a proper
\*   prefix of that phrase), " mem" (a word after a blank), "Ne ponyal"
\*   (a trigger phrase of two words, capitalised).
Vocabulary ==
    { CommandExplain,
      <<1052, 1055, 1073>>,
      <<1084, 1087>>,
      <<32, 1084, 1077, 1084>>,
      <<1053, 1077, 32, 1087, 1086, 1085, 1103, 1083>> }

RECURSIVE Concatenations(_)
Concatenations(n) ==
    IF n = 0 THEN {<<>>}
    ELSE LET shorter == Concatenations(n - 1)
         IN  shorter \cup {w \o t : w \in Vocabulary, t \in shorter}

\* Texts of at most MaxWords pieces, and the command "/start"; <<>> is
\* "no text".
Texts == Concatenations(MaxWords) \cup {CommandStart}

\* Texts of a replied-to message: none, blank only, "shutka " (a word
\* followed by a blank).
ReplyTexts == { <<>>, <<32>>, <<1096, 1091, 1090, 1082, 1072, 32>> }

\* Declared MIME types: none, "image/png", "application/pdf".
MimeTypes ==
    { <<>>,
      <<105, 109, 97, 103, 101, 47, 112, 110, 103>>,
      <<97, 112, 112, 108, 105, 99, 97, 116, 105, 111, 110, 47, 112, 100, 102>> }

NoDocument == [present |-> FALSE, mime_type |-> <<>>]

Documents == {NoDocument} \cup {[present |-> TRUE, mime_type |-> m] : m \in MimeTypes}

NoMessage == [present |-> FALSE, text |-> <<>>, photo |-> FALSE, document |-> NoDocument]

MessagesWith(texts) ==
    [present : {TRUE}, text : texts, photo : BOOLEAN, document : Documents]

\* An update whose `message` is None: an edited message or a channel post.
\* It is also the value of `update` while no handler runs.
NoUpdate == [message |-> NoMessage, reply_to_message |-> NoMessage]

\* The updates a handler is given: message updates, and the update without
\* a message.  The handlers' filters test update.effective_message, so the
\* framework hands an edited "/explain" or an edited text to the same
\* handlers; every handler reads update.message (bot.py:138, 285, 357).
Updates ==
    [message : MessagesWith(Texts \ {<<>>}),
     reply_to_message : MessagesWith(ReplyTexts) \cup {NoMessage}]
    \cup {NoUpdate}

-----------------------------------------------------------------------------
(* Values.                                                                 *)

\* Python's None.  No string of the model is the string "None".
None == "None"

\* b'': a download that returned no bytes.
EmptyBytes == "b''"

\* The (non-empty) content of the file `file`.
BytesOf(file) == file

\* bool(image_data)
Truthy(data) == data # None /\ data # EmptyBytes

\* What response.read() in download_image can do.
DownloadOutcomes == {"bytes", "empty", "raises"}

\* What client.chat.completions.create can do: raise, or return a response
\* with a list of choices, each with a content (which may be None).
RemoteOutcomes ==
    { [raises |-> TRUE,  choices |-> <<>>],
      [raises |-> FALSE, choices |-> <<>>],
      [raises |-> FALSE, choices |-> <<None>>],
      [raises |-> FALSE, choices |-> <<"content 1", "content 2">>] }

\* bot.py:101  "Izvinite, ne smog proanalizirovat' izobrazhenie. Poprobujte pozzhe."
ApologyImage == "apology: could not analyse the image"

\* bot.py:131  "Izvinite, ne smog proanalizirovat' tekst. Poprobujte pozzhe."
ApologyText == "apology: could not analyse the text"

\* bot.py:280, 334  "Proizoshla oshibka pri obrabotke zaprosa."
GenericError == "error: request processing failed"

\* str(e) of a caught exception, as the except clauses write it to the log
\* (bot.py:100, 130, 279, 333).
ExceptionText == "exception text"

-----------------------------------------------------------------------------
(* Values of the group detector.                                           *)

\* The store of a detector that has recorded nothing
\* (group_id_detector.py:37-38): {"groups": {}, "last_updated": None}.
EmptyStore == [groups |-> <<>>, last_updated |-> None]

\* detected_groups.json when it holds no JSON document: missing ("absent"),
\* text that json.load rejects ("corrupt"), or bytes that are no UTF-8 text
\* ("undecodable").  `content` is read of a file in state "json" only.
File(state) == [state |-> state, content |-> EmptyStore]

\* json.dump(data, f): strings, integers and None survive the round trip
\* through JSON unchanged, and the keys of "groups" are strings already.
JsonFile(data) == [state |-> "json", content |-> data]

\* A buffered update that carries no message or channel post.
NoChat == [id |-> 0, title |-> None, type |-> "none"]

\* No update handled yet by this process.
NoEvent ==
    [handler |-> "none", chat |-> NoChat, old_status |-> None,
     new_status |-> None, was |-> None, fetched |-> FALSE, buffer |-> <<>>,
     saved |-> <<>>, readings |-> <<>>]

-----------------------------------------------------------------------------
(* Explainer (bot.py:61-131).  The result says whether the call raised     *)
(* and, if not, what it returned.                                          *)

\* Variant: the except clause of bot.py:99-101 re-raises.
analyze_image_with_openai_reraising(remote) ==
    IF remote.raises \/ remote.choices = <<>>
    THEN [raised |-> TRUE, value |-> None]
    ELSE [raised |-> FALSE, value |-> remote.choices[1]]

analyze_image_with_openai(remote) ==
    IF remote.raises \/ remote.choices = <<>>
    THEN [raised |-> FALSE, value |-> ApologyImage]
    ELSE [raised |-> FALSE, value |-> remote.choices[1]]

\* Variant: the except clause of bot.py:129-131 returns the exception's text.
analyze_text_with_openai_leaking(remote) ==
    IF remote.raises \/ remote.choices = <<>>
    THEN [raised |-> FALSE, value |-> ExceptionText]
    ELSE [raised |-> FALSE, value |-> remote.choices[1]]

analyze_text_with_openai(remote) ==
    IF remote.raises \/ remote.choices = <<>>
    THEN [raised |-> FALSE, value |-> ApologyText]
    ELSE [raised |-> FALSE, value |-> remote.choices[1]]

-----------------------------------------------------------------------------
(* Content Resolver (bot.py:133-229).                                      *)

\* Variant: any document counts, whatever its MIME type.
is_image_document_any_mime(m) ==
    /\ m.present
    /\ m.document.present

is_image_document(m) ==
    /\ m.present
    /\ m.document.present
    /\ m.document.mime_type # <<>>
    /\ startswith(m.document.mime_type, ImagePrefix)

\* Variant: the reply's photo is tested before the message's own photo.
image_source_reply_first(u) ==
    IF u.reply_to_message.present /\ u.reply_to_message.photo THEN "reply.photo"
    ELSE IF u.message.photo THEN "message.photo"
    ELSE IF is_image_document(u.message) THEN "message.document"
    ELSE IF is_image_document(u.reply_to_message) THEN "reply.document"
    ELSE "none"

\* Variant: the reply's document is tested before the message's document.
image_source_reply_document_first(u) ==
    IF u.message.photo THEN "message.photo"
    ELSE IF u.reply_to_message.present /\ u.reply_to_message.photo THEN "reply.photo"
    ELSE IF is_image_document(u.reply_to_message) THEN "reply.document"
    ELSE IF is_image_document(u.message) THEN "message.document"
    ELSE "none"

\* The if/elif chain of bot.py:163-186: the attachment that is downloaded.
image_source(u) ==
    IF u.message.photo THEN "message.photo"
    ELSE IF u.reply_to_message.present /\ u.reply_to_message.photo THEN "reply.photo"
    ELSE IF is_image_document(u.message) THEN "message.document"
    ELSE IF is_image_document(u.reply_to_message) THEN "reply.document"
    ELSE "none"

\* Variant: the downloads are not inside a try.
get_image_from_message_unguarded(u, outcome) ==
    LET source == image_source(u)
    IN  IF source = "none" THEN [raised |-> FALSE, value |-> None]
        ELSE IF outcome = "raises" THEN [raised |-> TRUE, value |-> None]
        ELSE IF outcome = "empty" THEN [raised |-> FALSE, value |-> EmptyBytes]
        ELSE [raised |-> FALSE, value |-> BytesOf(source)]

\* How get_image_from_message ends once the download of the selected
\* attachment has ended with `outcome`: every download is inside a try whose
\* except clause logs and lets the function return None (bot.py:171-197).
get_image_from_message(u, outcome) ==
    LET source == image_source(u)
    IN  IF source = "none" THEN [raised |-> FALSE, value |-> None]
        ELSE IF outcome = "raises" THEN [raised |-> FALSE, value |-> None]
        ELSE IF outcome = "empty" THEN [raised |-> FALSE, value |-> EmptyBytes]
        ELSE [raised |-> FALSE, value |-> BytesOf(source)]

\* bot.py:209-217: the message's own text, or <<>> when it is not used.
direct_text(u) ==
    IF u.message.text = <<>> THEN <<>>
    ELSE LET stripped == strip(u.message.text)
             current_text ==
                 IF startswith(stripped, CommandExplain)
                 THEN strip(remove(stripped, CommandExplain))
                 ELSE stripped
         IN  IF current_text # <<>> /\ ~any_phrase_in(lower(current_text))
             THEN current_text
             ELSE <<>>

\* bot.py:220-224: the replied-to message's text, or <<>>.
reply_text_of(u) ==
    IF u.reply_to_message.present /\ u.reply_to_message.text # <<>>
    THEN strip(u.reply_to_message.text)
    ELSE <<>>

\* Variant: the replied-to message's text is preferred to the message's own.
get_text_from_message_reply_first(u) ==
    IF reply_text_of(u) # <<>> THEN reply_text_of(u) ELSE direct_text(u)

\* <<>> stands for None.
get_text_from_message(u) ==
    IF direct_text(u) # <<>> THEN direct_text(u) ELSE reply_text_of(u)

-----------------------------------------------------------------------------
(* Replies.                                                                *)

\* The texts handed to update.message.reply_text.  `msg` names the fixed
\* string, `body` is the explanation embedded in it, `prefix` tells whether
\* the magnifying-glass prefix precedes it, `chat_id` whether the chat id
\* is appended.
status_msg(h, kind) ==
    [msg |-> IF kind = "image" THEN "status: analysing image" ELSE "status: analysing text",
     of |-> h, body |-> "", prefix |-> FALSE, chat_id |-> SHOW_CHAT_ID]

response_msg(h, expl) ==
    [msg |-> "explanation", of |-> h, body |-> expl,
     prefix |-> (h = "handle_trigger_message"), chat_id |-> SHOW_CHAT_ID]

\* Variant: both handlers use the not-found text of explain_command.
error_msg_of_explain(h) ==
    [msg |-> "not found", of |-> "explain_command", body |-> "", prefix |-> FALSE,
     chat_id |-> SHOW_CHAT_ID]

error_msg(h) ==
    [msg |-> "not found", of |-> h, body |-> "", prefix |-> FALSE,
     chat_id |-> SHOW_CHAT_ID]

generic_error_msg(h) ==
    [msg |-> GenericError, of |-> h, body |-> "", prefix |-> FALSE, chat_id |-> FALSE]

\* bot.py:337-356: the usage text of /start.
welcome_text ==
    [msg |-> "usage", of |-> "start_command", body |-> "", prefix |-> FALSE,
     chat_id |-> FALSE]

\* One call of update.message.reply_text: the text and whether the call
\* returned (TRUE) or raised (FALSE).
Reply(text, ok) == [text |-> text, ok |-> ok]

-----------------------------------------------------------------------------
(* Handlers (bot.py:231-357) and their registration (bot.py:362-364).      *)

Handlers == {"start_command", "explain_command", "handle_trigger_message"}

\* The filters look at update.effective_message.  Of an update without a
\* message the model holds nothing but that `message` is None, so each
\* filter may accept it.
\* CommandHandler("start", ...): the text starts with the command.
is_start_command(u) == ~u.message.present \/ startswith(u.message.text, CommandStart)

\* CommandHandler("explain", ...): the text starts with the command.
is_explain_command(u) == ~u.message.present \/ startswith(u.message.text, CommandExplain)

\* filters.TEXT & ~filters.COMMAND: there is a text and it is no command.
is_plain_text(u) ==
    \/ ~u.message.present
    \/ u.message.text # <<>> /\ ~startswith(u.message.text, <<47>>)

TypeInv ==
    /\ SHOW_CHAT_ID \in BOOLEAN
    /\ handler \in Handlers \cup {"none"}
    /\ pc \in {"idle", "get_file", "session.get", "response.read", "session.__aexit__",
               "reply_status", "analyze", "reply_explanation",
               "reply_not_found", "except", "reply_usage", "done"}
    /\ update \in Updates
    /\ selected \in {"not called", "raised", "none", "message.photo", "reply.photo",
                     "message.document", "reply.document"}
    /\ escaped \in BOOLEAN

\* The bot before its first update.
BotInit ==
    /\ SHOW_CHAT_ID \in BOOLEAN
    /\ handler = "none"
    /\ pc = "idle"
    /\ update = NoUpdate
    /\ selected = "not called"
    /\ image_data = None
    /\ text_to_analyze = <<>>
    /\ downloads = <<>>
    /\ calls = <<>>
    /\ explanation = None
    /\ replies = <<>>
    /\ escaped = FALSE

\* No handler invocation of the detector has been dispatched as a task.
NoDispatch ==
    /\ tasks = <<>>
    /\ running = 0

\* No detector event happens in the bot's process.
DetectorUnused ==
    /\ groups_data = EmptyStore
    /\ groups_file = File("absent")
    /\ now = 0
    /\ phase = "constructed"
    /\ event = NoEvent
    /\ NoDispatch

\* No exporter runs in this process.
NoExport ==
    /\ script = "none"
    /\ openai_api_key = FALSE
    /\ export_pc = "unused"
    /\ history = <<>>
    /\ messages = <<>>
    /\ index = 0
    /\ exported_messages = <<>>
    /\ json_file = [written |-> FALSE, array |-> <<>>]
    /\ jsonl_file = [written |-> FALSE, text |-> <<>>]

Init == BotInit /\ DetectorUnused /\ NoExport

\* The framework hands the next update to a handler when none is running.
\* On an update without a message the first read of an attribute of
\* update.message raises AttributeError; in explain_command and
\* handle_trigger_message that is inside the try, and the except clause's
\* own update.message.reply_text (bot.py:280, 334) raises it again: the
\* exception leaves the handler and reply_text has not been called.
Enter(h, u) ==
    /\ pc = "idle"
    /\ handler' = h
    /\ update' = u
    /\ downloads' = <<>>
    /\ calls' = <<>>
    /\ explanation' = None
    /\ replies' = <<>>
    /\ escaped' = ~u.message.present
    /\ UNCHANGED <<detector_vars, dispatch_vars, export_vars, SHOW_CHAT_ID>>

\* Variant: the remote call is started without the status reply.
AfterImage_without_status(u, data) ==
    /\ image_data' = data
    /\ IF Truthy(data)
       THEN /\ text_to_analyze' = <<>>
            /\ pc' = "analyze"
       ELSE /\ text_to_analyze' = get_text_from_message(u)
            /\ pc' = IF get_text_from_message(u) # <<>>
                     THEN "analyze"
                     ELSE "reply_not_found"

\* Variant: a selected attachment that yields no bytes ends the search; the
\* texts are not consulted.
AfterImage_nothing_after_failed_image(u, data) ==
    /\ image_data' = data
    /\ IF Truthy(data)
       THEN /\ text_to_analyze' = <<>>
            /\ pc' = "reply_status"
       ELSE IF image_source(u) # "none"
       THEN /\ text_to_analyze' = <<>>
            /\ pc' = "reply_not_found"
       ELSE /\ text_to_analyze' = get_text_from_message(u)
            /\ pc' = IF get_text_from_message(u) # <<>>
                     THEN "reply_status"
                     ELSE "reply_not_found"

\* From the return of get_image_from_message to the next await:
\* `if image_data:` (bot.py:240, 294), else get_text_from_message and
\* `if text_to_analyze:` (bot.py:255-257, 309-311), else the not-found reply.
AfterImage(u, data) ==
    /\ image_data' = data
    /\ IF Truthy(data)
       THEN /\ text_to_analyze' = <<>>
            /\ pc' = "reply_status"
       ELSE /\ text_to_analyze' = get_text_from_message(u)
            /\ pc' = IF get_text_from_message(u) # <<>>
                     THEN "reply_status"
                     ELSE "reply_not_found"

\* The handler is left at its start, by `return` or by an exception.
Leave(sel) ==
    /\ pc' = "done"
    /\ selected' = sel
    /\ image_data' = None
    /\ text_to_analyze' = <<>>

\* get_image_from_message up to its first await: with no attachment selected
\* it returns None at once, otherwise get_file is awaited.
Resolve(u) ==
    /\ selected' = image_source(u)
    /\ IF image_source(u) = "none"
       THEN AfterImage(u, get_image_from_message(u, "bytes").value)
       ELSE /\ pc' = "get_file"
            /\ image_data' = None
            /\ text_to_analyze' = <<>>

\* bot.py:336-357: start_command up to its only await; without a message
\* bot.py:357 raises before anything is awaited.
start_command ==
    /\ pc = "idle"
    /\ \E u \in Updates :
          /\ is_start_command(u)
          /\ Enter("start_command", u)
          /\ IF u.message.present
             THEN /\ pc' = "reply_usage"
                  /\ selected' = "not called"
                  /\ image_data' = None
                  /\ text_to_analyze' = <<>>
             ELSE Leave("not called")

\* bot.py:357: the send of the usage text is not inside a try, so its
\* failure leaves the handler.
reply_usage(ok) ==
    /\ pc = "reply_usage"
    /\ replies' = Append(replies, Reply(welcome_text, ok))
    /\ escaped' = ~ok
    /\ pc' = "done"
    /\ UNCHANGED <<detector_vars, dispatch_vars, export_vars, SHOW_CHAT_ID, handler, update, selected, image_data, text_to_analyze,
                   downloads, calls, explanation>>

\* bot.py:231-238; without a message get_image_from_message raises at its
\* first read of update.message (bot.py:138).
explain_command ==
    /\ pc = "idle"
    /\ \E u \in Updates :
          /\ is_explain_command(u)
          /\ Enter("explain_command", u)
          /\ IF u.message.present THEN Resolve(u) ELSE Leave("raised")

\* Variant: the text is matched as written, without lower().
trigger_found_case_sensitive(u) == any_phrase_in(u.message.text)

\* Variant: every text message counts as a trigger.
trigger_found_always(u) == TRUE

\* bot.py:285-288: some trigger phrase occurs in the lower-cased text.
trigger_found(u) ==
    LET message_text == IF u.message.text # <<>> THEN lower(u.message.text) ELSE <<>>
    IN  any_phrase_in(message_text)

\* bot.py:282-292; without a message bot.py:285 raises.
handle_trigger_message ==
    /\ pc = "idle"
    /\ \E u \in Updates :
          /\ is_plain_text(u)
          /\ Enter("handle_trigger_message", u)
          /\ IF u.message.present /\ trigger_found(u)
             THEN Resolve(u)
             ELSE Leave("not called")

\* bot.py:172, 181, 190: `await context.bot.get_file(...)` of the selected
\* attachment ends.  When it raises, download_image is not called: the
\* except clause of the same try logs and the function returns None.
get_file(ok) ==
    /\ pc = "get_file"
    /\ IF ok
       THEN /\ pc' = "session.get"
            /\ UNCHANGED <<image_data, text_to_analyze>>
       ELSE AfterImage(update, get_image_from_message(update, "raises").value)
    /\ downloads' = IF ok THEN downloads
                    ELSE Append(downloads, [file |-> selected, outcome |-> "get_file raises"])
    /\ UNCHANGED <<detector_vars, dispatch_vars, export_vars, SHOW_CHAT_ID, handler, update, selected, calls, explanation,
                   replies, escaped>>

\* bot.py:57-58, in download_image: `async with session.get(file_url)` has
\* its response or raises.  An exception passes through the __aexit__ of
\* the session (bot.py:57) before it leaves download_image.
session_get(ok) ==
    /\ pc = "session.get"
    /\ pc' = IF ok THEN "response.read" ELSE "session.__aexit__"
    /\ downloads' = IF ok THEN downloads
                    ELSE Append(downloads, [file |-> selected, outcome |-> "raises"])
    /\ UNCHANGED <<detector_vars, dispatch_vars, export_vars, SHOW_CHAT_ID, handler, update, selected, image_data,
                   text_to_analyze, calls, explanation, replies, escaped>>

\* bot.py:59, in download_image: `await response.read()` returns the body
\* or raises; the session is closed next.
response_read(outcome) ==
    /\ pc = "response.read"
    /\ pc' = "session.__aexit__"
    /\ downloads' = Append(downloads, [file |-> selected, outcome |-> outcome])
    /\ UNCHANGED <<detector_vars, dispatch_vars, export_vars, SHOW_CHAT_ID, handler, update, selected, image_data,
                   text_to_analyze, calls, explanation, replies, escaped>>

\* Variant: a download that raised is attempted a second time.
download_image_retrying ==
    /\ pc = "session.__aexit__"
    /\ IF downloads[Len(downloads)].outcome = "raises" /\ Len(downloads) = 1
       THEN /\ pc' = "session.get"
            /\ UNCHANGED <<image_data, text_to_analyze>>
       ELSE AfterImage(update,
                get_image_from_message(update, downloads[Len(downloads)].outcome).value)
    /\ UNCHANGED <<detector_vars, dispatch_vars, export_vars, SHOW_CHAT_ID, handler, update, selected, downloads, calls,
                   explanation, replies, escaped>>

\* bot.py:56-59 and 174, 183, 192: the __aexit__ of the ClientSession has
\* been awaited and `await download_image(file.file_path)` ends with the
\* body read or with the exception raised; get_image_from_message returns.
download_image ==
    /\ pc = "session.__aexit__"
    /\ LET r == get_image_from_message(update, downloads[Len(downloads)].outcome)
       IN  IF r.raised
           THEN /\ pc' = "except"
                /\ UNCHANGED <<image_data, text_to_analyze>>
           ELSE AfterImage(update, r.value)
    /\ UNCHANGED <<detector_vars, dispatch_vars, export_vars, SHOW_CHAT_ID, handler, update, selected, downloads, calls,
                   explanation, replies, escaped>>

Kind == IF Truthy(image_data) THEN "image" ELSE "text"

\* Variant: a failed send of the status reply is ignored.
reply_status_ignoring_failure(ok) ==
    /\ pc = "reply_status"
    /\ replies' = Append(replies, Reply(status_msg(handler, Kind), ok))
    /\ pc' = "analyze"
    /\ UNCHANGED <<detector_vars, dispatch_vars, export_vars, SHOW_CHAT_ID, handler, update, selected, image_data, text_to_analyze,
                   downloads, calls, explanation, escaped>>

\* bot.py:242-245, 259-262, 296-299, 313-316
reply_status(ok) ==
    /\ pc = "reply_status"
    /\ replies' = Append(replies, Reply(status_msg(handler, Kind), ok))
    /\ pc' = IF ok THEN "analyze" ELSE "except"
    /\ UNCHANGED <<detector_vars, dispatch_vars, export_vars, SHOW_CHAT_ID, handler, update, selected, image_data, text_to_analyze,
                   downloads, calls, explanation, escaped>>

\* response_msg += f"\n\n(chat_id: {chat_id})" on None raises TypeError
\* (bot.py:248-250, 265-267); the f-string of bot.py:302, 319 never does.
response_raises(h, expl) ==
    h = "explain_command" /\ expl = None /\ SHOW_CHAT_ID

\* bot.py:247-250, 264-267, 301-304, 318-321
analyze(remote) ==
    /\ pc = "analyze"
    /\ LET result == IF Kind = "image"
                     THEN analyze_image_with_openai(remote)
                     ELSE analyze_text_with_openai(remote)
       IN  /\ calls' = Append(calls,
                  [fn |-> IF Kind = "image" THEN "analyze_image_with_openai"
                                            ELSE "analyze_text_with_openai",
                   image |-> IF Kind = "image" THEN image_data ELSE None,
                   text |-> IF Kind = "image" THEN <<>> ELSE text_to_analyze,
                   remote |-> remote,
                   result |-> result])
           /\ IF result.raised
              THEN /\ explanation' = explanation
                   /\ pc' = "except"
              ELSE /\ explanation' = result.value
                   /\ pc' = IF response_raises(handler, result.value)
                            THEN "except"
                            ELSE "reply_explanation"
    /\ UNCHANGED <<detector_vars, dispatch_vars, export_vars, SHOW_CHAT_ID, handler, update, selected, image_data, text_to_analyze,
                   downloads, replies, escaped>>

\* bot.py:251-252, 268-269, 305-306, 322-323
reply_explanation(ok) ==
    /\ pc = "reply_explanation"
    /\ replies' = Append(replies, Reply(response_msg(handler, explanation), ok))
    /\ pc' = IF ok THEN "done" ELSE "except"
    /\ UNCHANGED <<detector_vars, dispatch_vars, export_vars, SHOW_CHAT_ID, handler, update, selected, image_data, text_to_analyze,
                   downloads, calls, explanation, escaped>>

\* bot.py:271-276, 325-330
reply_not_found(ok) ==
    /\ pc = "reply_not_found"
    /\ replies' = Append(replies, Reply(error_msg(handler), ok))
    /\ pc' = IF ok THEN "done" ELSE "except"
    /\ UNCHANGED <<detector_vars, dispatch_vars, export_vars, SHOW_CHAT_ID, handler, update, selected, image_data, text_to_analyze,
                   downloads, calls, explanation, escaped>>

\* Variant: a failed send of the generic error reply is swallowed.
reply_error_guarded(ok) ==
    /\ pc = "except"
    /\ replies' = Append(replies, Reply(generic_error_msg(handler), ok))
    /\ escaped' = FALSE
    /\ pc' = "done"
    /\ UNCHANGED <<detector_vars, dispatch_vars, export_vars, SHOW_CHAT_ID, handler, update, selected, image_data, text_to_analyze,
                   downloads, calls, explanation>>

\* bot.py:278-280, 332-334: the except clause; its own reply_text is not
\* guarded, so its failure leaves the handler.
reply_error(ok) ==
    /\ pc = "except"
    /\ replies' = Append(replies, Reply(generic_error_msg(handler), ok))
    /\ escaped' = ~ok
    /\ pc' = "done"
    /\ UNCHANGED <<detector_vars, dispatch_vars, export_vars, SHOW_CHAT_ID, handler, update, selected, image_data, text_to_analyze,
                   downloads, calls, explanation>>

\* The handler has returned (or its exception has been logged by the
\* framework); the application waits for the next update.
handler_returns ==
    /\ pc = "done"
    /\ pc' = "idle"
    /\ handler' = "none"
    /\ update' = NoUpdate
    /\ selected' = "not called"
    /\ image_data' = None
    /\ text_to_analyze' = <<>>
    /\ downloads' = <<>>
    /\ calls' = <<>>
    /\ explanation' = None
    /\ replies' = <<>>
    /\ escaped' = FALSE
    /\ UNCHANGED <<detector_vars, dispatch_vars, export_vars, SHOW_CHAT_ID>>

Next ==
    \/ start_command
    \/ \E ok \in BOOLEAN : reply_usage(ok)
    \/ explain_command
    \/ handle_trigger_message
    \/ \E ok \in BOOLEAN : get_file(ok)
    \/ \E ok \in BOOLEAN : session_get(ok)
    \/ \E outcome \in DownloadOutcomes : response_read(outcome)
    \/ download_image
    \/ \E ok \in BOOLEAN : reply_status(ok)
    \/ \E remote \in RemoteOutcomes : analyze(remote)
    \/ \E ok \in BOOLEAN : reply_explanation(ok)
    \/ \E ok \in BOOLEAN : reply_not_found(ok)
    \/ \E ok \in BOOLEAN : reply_error(ok)
    \/ handler_returns

Spec == Init /\ [][Next]_vars

\* The bot when every send of a reply returns.
SendsSucceedNext ==
    \/ start_command
    \/ reply_usage(TRUE)
    \/ explain_command
    \/ handle_trigger_message
    \/ \E ok \in BOOLEAN : get_file(ok)
    \/ \E ok \in BOOLEAN : session_get(ok)
    \/ \E outcome \in DownloadOutcomes : response_read(outcome)
    \/ download_image
    \/ reply_status(TRUE)
    \/ \E remote \in RemoteOutcomes : analyze(remote)
    \/ reply_explanation(TRUE)
    \/ reply_not_found(TRUE)
    \/ reply_error(TRUE)
    \/ handler_returns

\* A suspended handler is resumed: the network call it awaits returns or
\* raises, and the event loop runs the code that follows the await.
Resumed ==
    \/ reply_usage(TRUE)
    \/ get_file(TRUE) \/ get_file(FALSE)
    \/ download_image
    \/ session_get(TRUE) \/ session_get(FALSE)
    \/ response_read("bytes") \/ response_read("empty") \/ response_read("raises")
    \/ reply_status(TRUE)
    \/ \E remote \in RemoteOutcomes : analyze(remote)
    \/ reply_explanation(TRUE)
    \/ reply_not_found(TRUE)
    \/ reply_error(TRUE)

\* Every awaited call ends; that an update arrives at all is not required.
FairSpec == Init /\ [][SendsSucceedNext]_vars /\ WF_vars(Resumed)

-----------------------------------------------------------------------------
(* Vocabulary of the properties.                                           *)

\* The positions of a handler inside get_image_from_message.
Downloading == {"get_file", "session.get", "response.read", "session.__aexit__"}

Message == update.message

ReplyTo == update.reply_to_message

\* get_image_from_message has been called in this invocation and has made
\* its selection (on an update without a message it raises before).
ResolverRan == selected \notin {"not called", "raised"}

\* The handler has ended.
Finished == pc = "done"

\* The phrase occurs in the text at position i, letter case ignored.
OccursAt(text, phrase, i) ==
    \A j \in 1..Len(phrase) : LowerChar(text[i + j - 1]) = phrase[j]

HasTrigger(text) ==
    \E k \in 1..Len(TRIGGER_PHRASES) :
        \E i \in 1..(Len(text) - Len(TRIGGER_PHRASES[k]) + 1) :
            OccursAt(text, TRIGGER_PHRASES[k], i)

\* The document's declared MIME type starts with "image/".
ImageTyped(m) ==
    /\ m.present
    /\ m.document.present
    /\ Len(m.document.mime_type) >= Len(ImagePrefix)
    /\ \A j \in 1..Len(ImagePrefix) : m.document.mime_type[j] = ImagePrefix[j]

NotFoundSent == \E i \in DOMAIN replies : replies[i].text.msg = "not found"

ImageAnalyses == {i \in DOMAIN calls : calls[i].fn = "analyze_image_with_openai"}

TextAnalyses == {i \in DOMAIN calls : calls[i].fn = "analyze_text_with_openai"}

-----------------------------------------------------------------------------
(* C1: when the message and the replied-to message both carry a photo,     *)
(* get_image_from_message selects the message's own photo and that is the  *)
(* only file it downloads.                                                 *)
C1_DirectPhotoFirst ==
    (ResolverRan /\ Message.photo /\ ReplyTo.present /\ ReplyTo.photo) =>
        /\ selected = "message.photo"
        /\ \A i \in DOMAIN downloads : downloads[i].file = "message.photo"
        /\ pc \notin Downloading => Len(downloads) = 1

C1_Witness ==
    /\ Finished
    /\ Message.photo /\ ReplyTo.present /\ ReplyTo.photo
    /\ downloads = <<[file |-> "message.photo", outcome |-> "bytes"]>>
    /\ image_data = BytesOf("message.photo")
    /\ Cardinality(ImageAnalyses) = 1
    /\ Len(replies) = 2 /\ replies[2].ok /\ replies[2].text.msg = "explanation"

-----------------------------------------------------------------------------
\* text with every occurrence of phrase removed, letter case ignored
RECURSIVE WithoutPhrase(_, _)
WithoutPhrase(text, phrase) ==
    IF text = <<>> THEN <<>>
    ELSE IF Len(phrase) <= Len(text) /\ OccursAt(text, phrase, 1)
         THEN WithoutPhrase(SubSeq(text, Len(phrase) + 1, Len(text)), phrase)
         ELSE <<Head(text)>> \o WithoutPhrase(Tail(text), phrase)

RECURSIVE WithoutPhrases(_, _)
WithoutPhrases(text, k) ==
    IF k > Len(TRIGGER_PHRASES) THEN text
    ELSE WithoutPhrases(WithoutPhrase(text, TRIGGER_PHRASES[k]), k + 1)

\* The message's own text without the command and without trigger phrases.
StrippedDirectText ==
    LET t == strip(Message.text)
        c == IF startswith(t, CommandExplain) THEN strip(remove(t, CommandExplain)) ELSE t
    IN  strip(WithoutPhrases(c, 1))

(* C2: when no image is resolved and the message's own text holds a        *)
(* trigger phrase together with other text, the resolver returns that text *)
(* with the trigger phrase stripped out.                                   *)
C2_DirectTextStripped ==
    ( /\ ResolverRan
      /\ pc \notin {"idle"} \cup Downloading
      /\ ~Truthy(image_data)
      /\ HasTrigger(Message.text)
      /\ StrippedDirectText # <<>> ) =>
        text_to_analyze = StrippedDirectText

-----------------------------------------------------------------------------
\* The update's only content is a document without image type on the
\* replied-to message: the message's text is the bare command or a bare
\* trigger phrase.
OnlyReplyNonImageDocument ==
    /\ ~Message.photo /\ ~Message.document.present
    /\ \/ Message.text = CommandExplain
       \/ \E k \in 1..Len(TRIGGER_PHRASES) : lower(Message.text) = TRIGGER_PHRASES[k]
    /\ ReplyTo.present
    /\ ~ReplyTo.photo
    /\ ReplyTo.text = <<>>
    /\ ReplyTo.document.present
    /\ ~ImageTyped(ReplyTo)

(* C3: for an update whose only content is a replied-to message with a     *)
(* document of non-image MIME type the resolver returns nothing: nothing   *)
(* is downloaded, neither analyze function is called, and the handler's    *)
(* first reply is its not-found message.                                   *)
C3_ReplyNonImageDocumentIsNothing ==
    (ResolverRan /\ OnlyReplyNonImageDocument) =>
        /\ selected = "none"
        /\ downloads = <<>>
        /\ calls = <<>>
        /\ image_data = None
        /\ text_to_analyze = <<>>
        /\ pc \in {"reply_not_found", "except", "done"}
        /\ pc # "reply_not_found" =>
              (replies[1].text.msg = "not found" /\ replies[1].text.of = handler)

C3_Witness ==
    /\ Finished
    /\ ResolverRan
    /\ OnlyReplyNonImageDocument
    /\ ReplyTo.document.mime_type # <<>>
    /\ replies = <<Reply(error_msg(handler), TRUE)>>

-----------------------------------------------------------------------------
(* C4: the image source is the first match in the order direct photo,      *)
(* reply photo, image-typed document of the message, image-typed document  *)
(* of the replied-to message; nothing but the selected source is           *)
(* downloaded; text is resolved and analysed only when no image bytes were *)
(* obtained.                                                               *)
C4_ImagePrecedence ==
    ResolverRan =>
        /\ selected = "message.photo" <=> Message.photo
        /\ selected = "reply.photo" <=> (~Message.photo /\ ReplyTo.photo)
        /\ selected = "message.document" <=>
               (~Message.photo /\ ~ReplyTo.photo /\ ImageTyped(Message))
        /\ selected = "reply.document" <=>
               (~Message.photo /\ ~ReplyTo.photo /\ ~ImageTyped(Message)
                /\ ImageTyped(ReplyTo))
        /\ \A i \in DOMAIN downloads : downloads[i].file = selected
        /\ Len(downloads) <= 1
        /\ Truthy(image_data) => (text_to_analyze = <<>> /\ TextAnalyses = {})

C4_Witness ==
    /\ Finished
    /\ Message.document.present /\ ~ImageTyped(Message)
    /\ selected = "reply.document"
    /\ downloads = <<[file |-> "reply.document", outcome |-> "bytes"]>>
    /\ Cardinality(ImageAnalyses) = 1
    /\ Len(replies) = 2 /\ replies[2].ok /\ replies[2].text.msg = "explanation"

-----------------------------------------------------------------------------
\* The resolver's result: image bytes, a text, or nothing.
ResolvedImage == Truthy(image_data)

ResolvedText == ~Truthy(image_data) /\ text_to_analyze # <<>>

ResolvedNothing == ~Truthy(image_data) /\ text_to_analyze = <<>>

\* The send of the status reply, the first reply of a handler that resolved
\* something, returned.
StatusSent ==
    /\ replies # <<>>
    /\ replies[1].text \in {status_msg(handler, "image"), status_msg(handler, "text")}
    /\ replies[1].ok

(* C5 as stated, for the invocations that ran the resolver and let no      *)
(* exception escape: at most one of the two analyze functions is called,   *)
(* and the not-found message is sent exactly when neither is called.       *)
C5_NotFoundIffNoAnalysis ==
    (Finished /\ ResolverRan /\ ~escaped) =>
        /\ Len(calls) <= 1
        /\ NotFoundSent <=> calls = <<>>

(* C5, amended: in every invocation at most one analyze function is        *)
(* called, the one that fits the resolver's result; the not-found message  *)
(* is sent exactly when the resolver ran and yielded nothing; an analyze   *)
(* function is called exactly when the resolver yielded an image or a text *)
(* and the send of the status reply succeeded.                             *)
C5_ExactlyOneResult ==
    Finished =>
        /\ Len(calls) <= 1
        /\ ResolverRan =>
              /\ NotFoundSent <=> ResolvedNothing
              /\ ImageAnalyses # {} <=> (ResolvedImage /\ StatusSent)
              /\ TextAnalyses # {} <=> (ResolvedText /\ StatusSent)
        /\ ~ResolverRan => (calls = <<>> /\ ~NotFoundSent)

C5_Witness ==
    /\ Finished
    /\ ResolvedImage
    /\ replies = <<Reply(status_msg(handler, "image"), FALSE),
                   Reply(generic_error_msg(handler), TRUE)>>
    /\ calls = <<>>

-----------------------------------------------------------------------------
(* C6: when the download of the selected attachment fails (get_file or    *)
(* the download itself raises), get_image_from_message returns None        *)
(* without raising (the handler goes on to the text) and no second         *)
(* download is attempted.                                                  *)
C6_DownloadFailureIsNone ==
    (downloads # <<>> /\ downloads[1].outcome \in {"raises", "get_file raises"}) =>
        /\ Len(downloads) = 1
        /\ image_data = None
        /\ ~(pc = "except" /\ replies = <<>>)
        /\ replies # <<>> =>
              replies[1].text \in {status_msg(handler, "text"), error_msg(handler)}

C6_Witness ==
    /\ Finished
    /\ selected = "message.document"
    /\ ImageTyped(ReplyTo)
    /\ downloads = <<[file |-> "message.document", outcome |-> "raises"]>>
    /\ replies = <<Reply(error_msg(handler), TRUE)>>

-----------------------------------------------------------------------------
(* C7: handle_trigger_message runs the resolver for a text message if and  *)
(* only if some phrase of TRIGGER_PHRASES occurs somewhere in the text,    *)
(* letter case ignored.                                                    *)
C7_TriggerIsSubstringTest ==
    (handler = "handle_trigger_message" /\ pc # "idle") =>
        (ResolverRan <=> HasTrigger(Message.text))

\* " memMPb": the phrase in upper case at the end of a longer word.
C7_Witness ==
    /\ handler = "handle_trigger_message"
    /\ Message.text = <<32, 1084, 1077, 1084, 1052, 1055, 1073>>
    /\ ResolverRan
    /\ Finished

-----------------------------------------------------------------------------
(* C8: a text message without trigger phrase causes no reply, no download  *)
(* and no analyze call, and handle_trigger_message ends at once; it        *)
(* returns without an exception when the update carries the message (an    *)
(* update without a message has no effect on the chat either, the handler  *)
(* raises before it sends anything).                                       *)
C8_NoTriggerNoEffect ==
    (handler = "handle_trigger_message" /\ ~HasTrigger(Message.text)) =>
        /\ pc = "done"
        /\ replies = <<>>
        /\ downloads = <<>>
        /\ calls = <<>>
        /\ selected = "not called"
        /\ escaped <=> ~Message.present

\* "mp mem" with a photo, in reply to a message with a photo and a text.
C8_Witness ==
    /\ handler = "handle_trigger_message"
    /\ Message.text = <<1084, 1087, 32, 1084, 1077, 1084>>
    /\ Message.photo
    /\ ReplyTo.present /\ ReplyTo.photo /\ strip(ReplyTo.text) # <<>>
    /\ Finished
    /\ replies = <<>>

-----------------------------------------------------------------------------
Apology(fn) == IF fn = "analyze_image_with_openai" THEN ApologyImage ELSE ApologyText

(* C9: the analyze functions never raise; when the remote call returns a   *)
(* response with choices they return the content of the first choice, and  *)
(* when it fails they return their apology string.                         *)
C9_AnalyzeNeverRaises ==
    \A i \in DOMAIN calls :
        LET c == calls[i]
        IN  /\ ~c.result.raised
            /\ (c.remote.raises \/ c.remote.choices = <<>>) =>
                   c.result.value = Apology(c.fn)
            /\ (~c.remote.raises /\ c.remote.choices # <<>>) =>
                   c.result.value = Head(c.remote.choices)

C9_Witness ==
    /\ Finished
    /\ Len(calls) = 1
    /\ calls[1].fn = "analyze_image_with_openai"
    /\ calls[1].remote.raises
    /\ explanation = ApologyImage
    /\ replies[2] = Reply(response_msg(handler, ApologyImage), TRUE)

-----------------------------------------------------------------------------
(* C10 as stated, for the invocations that let no exception escape: when   *)
(* neither an image nor a text is resolved the handler sends exactly one   *)
(* reply, its not-found message.                                           *)
C10_OnlyNotFoundReply ==
    (Finished /\ ResolverRan /\ ResolvedNothing /\ ~escaped) =>
        /\ Len(replies) = 1
        /\ replies[1].text.msg = "not found"
        /\ replies[1].text.of = handler

(* C10, amended: when neither an image nor a text is resolved the          *)
(* handler's first reply is its own not-found message; if that send        *)
(* succeeds it is the only reply and nothing is raised; if it fails the    *)
(* handler tries the generic error reply once, and an exception leaves the *)
(* handler exactly when that send fails too.                               *)
C10_NotFoundReplyFirst ==
    (Finished /\ ResolverRan /\ ResolvedNothing) =>
        /\ replies # <<>>
        /\ replies[1].text.msg = "not found"
        /\ replies[1].text.of = handler
        /\ replies[1].ok => (Len(replies) = 1 /\ ~escaped)
        /\ ~replies[1].ok =>
              /\ Len(replies) = 2
              /\ replies[2].text = generic_error_msg(handler)
              /\ escaped <=> ~replies[2].ok
        /\ calls = <<>>

C10_Witness ==
    /\ Finished
    /\ handler = "handle_trigger_message"
    /\ ResolverRan /\ ResolvedNothing
    /\ replies = <<Reply(error_msg("handle_trigger_message"), TRUE)>>
    /\ ~escaped

-----------------------------------------------------------------------------
\* The fixed strings a reply can consist of.
FixedReplyTexts ==
    {"status: analysing image", "status: analysing text", "not found", "usage",
     GenericError}

\* What an analyze call may hand back: the content the remote model
\* returned, or the function's apology string.
ExplainerValue(c) ==
    IF ~c.remote.raises /\ c.remote.choices # <<>>
    THEN Head(c.remote.choices)
    ELSE Apology(c.fn)

(* C11: every reply is a fixed string (status, not-found, usage, generic    *)
(* error) with no embedded text, or the value the analyze call of this     *)
(* invocation returned; that value is the remote model's content or the    *)
(* apology string, and the text of a caught exception is in no reply.      *)
C11_RepliesAreFixedOrExplanation ==
    \A i \in DOMAIN replies :
        LET t == replies[i].text
        IN  /\ t.body # ExceptionText
            /\ t.msg # ExceptionText
            /\ \/ t.msg \in FixedReplyTexts /\ t.body = ""
               \/ /\ t.msg = "explanation"
                  /\ Len(calls) = 1
                  /\ t.body = calls[1].result.value
                  /\ t.body = ExplainerValue(calls[1])

\* The remote call for a text raised, and the reply after the status reply
\* carries the apology string.
C11_Witness ==
    /\ Finished
    /\ Len(calls) = 1
    /\ calls[1].fn = "analyze_text_with_openai"
    /\ calls[1].remote.raises
    /\ Len(replies) = 2
    /\ replies[2].ok
    /\ replies[2].text.msg = "explanation"
    /\ replies[2].text.body = ApologyText

-----------------------------------------------------------------------------
\* Some reply send of this invocation other than the last one raised, or
\* the download or the remote model call did.
EarlierFailure ==
    \/ \E i \in 1..(Len(replies) - 1) : ~replies[i].ok
    \/ \E i \in DOMAIN downloads : downloads[i].outcome \in {"raises", "get_file raises"}
    \/ \E i \in DOMAIN calls : calls[i].remote.raises

\* The last reply attempted is the generic error reply and its send raised.
ErrorReplyFailed ==
    /\ replies # <<>>
    /\ replies[Len(replies)].text.msg = GenericError
    /\ ~replies[Len(replies)].ok

(* C12 as stated: no exception leaves explain_command or                   *)
(* handle_trigger_message, whichever of the download, the remote model     *)
(* call or a reply send fails, the send of the generic error reply         *)
(* included.                                                               *)
C12_NoErrorEscapes ==
    handler \in {"explain_command", "handle_trigger_message"} => ~escaped

(* C12, amended: an exception leaves explain_command or                    *)
(* handle_trigger_message exactly when the send of the generic error reply *)
(* itself raises or the update carries no message (then the except clause  *)
(* raises before it sends anything); a failed get_file, a failed download, *)
(* a failed remote model call and a failed send of any other reply never   *)
(* leave the handler; the generic error reply is attempted at most once.   *)
C12_EscapesOnlyFromErrorReply ==
    handler \in {"explain_command", "handle_trigger_message"} =>
        /\ escaped <=> (Finished /\ (ErrorReplyFailed \/ ~Message.present))
        /\ \A i \in 1..(Len(replies) - 1) : replies[i].text.msg # GenericError
        /\ ~Message.present => (replies = <<>> /\ downloads = <<>> /\ calls = <<>>)
        /\ (Finished /\ Message.present /\ ~ErrorReplyFailed) => ~escaped

\* The download raised, then the send of the status reply raised, then the
\* send of the generic error reply raised.
C12_Witness ==
    /\ Finished
    /\ handler = "explain_command"
    /\ downloads # <<>> /\ downloads[1].outcome = "raises"
    /\ Len(replies) = 2
    /\ EarlierFailure
    /\ ~replies[1].ok
    /\ ErrorReplyFailed
    /\ escaped

-----------------------------------------------------------------------------
\* The text that follows the command at the start of the message.
InlineText ==
    LET t == strip(Message.text)
    IN  strip(SubSeq(t, Len(CommandExplain) + 1, Len(t)))

(* C13: in explain_command, when no image was resolved and the command is  *)
(* followed by inline text, the text handed to analyze_text_with_openai is *)
(* the message text without the command, surrounding whitespace stripped.  *)
C13_InlineTextAnalysed ==
    ( /\ handler = "explain_command"
      /\ pc \notin {"idle"} \cup Downloading
      /\ ~Truthy(image_data)
      /\ InlineText # <<>> ) =>
        /\ text_to_analyze = InlineText
        /\ \A i \in DOMAIN calls :
               calls[i].fn = "analyze_text_with_openai" /\ calls[i].text = InlineText

-----------------------------------------------------------------------------
(* Group Detector (src/group_id_detector.py).  src/simple_group_detector.py *)
(* has the same save path and the same two handlers, and no startup scan.  *)
(* save_group_info is awaited but contains no await itself, so a handler   *)
(* invocation, and the loop of the startup scan, run without suspension:   *)
(* each is one action.                                                     *)

\* Time passes between two updates: the clock advances by one before every
\* handler invocation and every startup scan, so that later saves carry
\* later timestamps.  At MaxTime the detector handles no further update.
MaxTime == 3

\* Longest update buffer bot.get_updates returns to the startup scan.
MaxBuffer == 2

\* datetime.now().isoformat() at clock value t
isoformat(t) == ToString(t)

\* The values n successive calls of datetime.now() return when the clock
\* stood at `from` before: the clock does not run back, and two calls that
\* follow each other read the same value or the next one.
RECURSIVE Readings(_, _)
Readings(n, from) ==
    IF n = 0 THEN {<<>>}
    ELSE UNION {{<<t>> \o r : r \in Readings(n - 1, t)} : t \in {from, from + 1}}

\* str(chat_id)
str(chat_id) == ToString(chat_id)

\* ChatMemberStatus values of new_chat_member.
ChatMemberStatuses == {"left", "member", "administrator", "kicked", "restricted"}

\* Status of old_chat_member, None when the update has none.
OldStatuses == {None, "left", "member", "administrator", "kicked"}

\* The chats updates come from: a supergroup (under two titles), a group
\* without title, a private chat, a channel.
DetectorChats ==
    { [id |-> -100123, title |-> "Memes",       type |-> "supergroup"],
      [id |-> -100123, title |-> "Memes moved", type |-> "supergroup"],
      [id |-> -42,     title |-> None,       type |-> "group"],
      [id |-> 7,       title |-> None,       type |-> "private"],
      [id |-> -1009,   title |-> "News",        type |-> "channel"] }

\* The chat of a buffered update (group_id_detector.py:136-145), NoChat for
\* an update that is no message and no channel post.
Buffers == UNION {[1..n -> DetectorChats \cup {NoChat}] : n \in 0..MaxBuffer}

\* "Bez nazvaniya"
DefaultTitle == "untitled"

\* chat.title or "Bez nazvaniya"
title_or_default(title) == IF title = None \/ title = "" THEN DefaultTitle ELSE title

\* group_id_detector.py:30-38.  Only json.JSONDecodeError is caught: bytes
\* that are no UTF-8 text raise UnicodeDecodeError out of the function.  A
\* JSON document is returned as it is.
load_groups_data(file) ==
    IF file.state = "absent" THEN [outcome |-> "store", value |-> EmptyStore]
    ELSE IF file.state = "corrupt" THEN [outcome |-> "store", value |-> EmptyStore]
    ELSE IF file.state = "undecodable" THEN [outcome |-> "raises", value |-> EmptyStore]
    ELSE [outcome |-> "store", value |-> file.content]

\* group_id_detector.py:40-45: stamps the store and writes the whole of it.
\* The result is the store and the file afterwards.
save_groups_data(data, t) ==
    LET stamped == [data EXCEPT !.last_updated = isoformat(t)]
    IN  [groups_data |-> stamped, groups_file |-> JsonFile(stamped)]

\* Variant: first_detected is stamped anew on every save.
save_group_info_restamping(data, chat_id, chat_title, chat_type, event_type, t) ==
    LET group_key == str(chat_id)
        group_info ==
            [id |-> chat_id,
             title |-> chat_title,
             type |-> chat_type,
             first_detected |-> isoformat(t[1]),
             last_activity |-> isoformat(t[2]),
             event_type |-> event_type,
             status |-> "active"]
    IN  save_groups_data(
            [data EXCEPT !.groups = (group_key :> group_info) @@ data.groups], t[3])

\* Variant: an existing record is updated in place; fields the new record
\* does not have stay.
save_group_info_updating_in_place(data, chat_id, chat_title, chat_type, event_type, t) ==
    LET group_key == str(chat_id)
        group_info ==
            [id |-> chat_id,
             title |-> chat_title,
             type |-> chat_type,
             first_detected |->
                 IF group_key \in DOMAIN data.groups
                 THEN data.groups[group_key].first_detected
                 ELSE isoformat(t[1]),
             last_activity |-> isoformat(t[2]),
             event_type |-> event_type,
             status |-> "active"]
        merged ==
            IF group_key \in DOMAIN data.groups
            THEN group_info @@ data.groups[group_key]
            ELSE group_info
    IN  save_groups_data(
            [data EXCEPT !.groups = (group_key :> merged) @@ data.groups], t[3])

\* Variant: an existing record keeps its status.
save_group_info_keeping_status(data, chat_id, chat_title, chat_type, event_type, t) ==
    LET group_key == str(chat_id)
        group_info ==
            [id |-> chat_id,
             title |-> chat_title,
             type |-> chat_type,
             first_detected |->
                 IF group_key \in DOMAIN data.groups
                 THEN data.groups[group_key].first_detected
                 ELSE isoformat(t[1]),
             last_activity |-> isoformat(t[2]),
             event_type |-> event_type,
             status |->
                 IF group_key \in DOMAIN data.groups
                 THEN data.groups[group_key].status
                 ELSE "active"]
    IN  save_groups_data(
            [data EXCEPT !.groups = (group_key :> group_info) @@ data.groups], t[3])

\* group_id_detector.py:47-68.  `t` holds the three values the call reads
\* from the clock: at line 55 (read also when the record exists and its
\* first_detected is kept), at line 56, and at line 42 in save_groups_data.
save_group_info(data, chat_id, chat_title, chat_type, event_type, t) ==
    LET group_key == str(chat_id)
        group_info ==
            [id |-> chat_id,
             title |-> chat_title,
             type |-> chat_type,
             first_detected |->
                 IF group_key \in DOMAIN data.groups
                 THEN data.groups[group_key].first_detected
                 ELSE isoformat(t[1]),
             last_activity |-> isoformat(t[2]),
             event_type |-> event_type,
             status |-> "active"]
    IN  save_groups_data(
            [data EXCEPT !.groups = (group_key :> group_info) @@ data.groups], t[3])

\* Variant: the removal stamps first_detected too.
removed_restamping(info, t) ==
    [id |-> info.id,
     title |-> info.title,
     type |-> info.type,
     first_detected |-> isoformat(t),
     last_activity |-> info.last_activity,
     event_type |-> info.event_type,
     status |-> "removed",
     removed_at |-> isoformat(t)]

\* group_id_detector.py:106-107: the record with status and removed_at set.
removed(info, t) ==
    [id |-> info.id,
     title |-> info.title,
     type |-> info.type,
     first_detected |-> info.first_detected,
     last_activity |-> info.last_activity,
     event_type |-> info.event_type,
     status |-> "removed",
     removed_at |-> isoformat(t)]

\* Variant: a missing old_chat_member is no addition.
is_added_from_left_only(old_status, new_status) ==
    /\ old_status = "left"
    /\ new_status \in {"member", "administrator"}

\* group_id_detector.py:88-89
is_added(old_status, new_status) ==
    /\ old_status \in {"left", None}
    /\ new_status \in {"member", "administrator"}

\* Variant: only a plain member can be removed.
is_removed_member_only(old_status, new_status) ==
    /\ old_status = "member"
    /\ new_status = "left"

\* Variant: being kicked counts as a removal.
is_removed_or_kicked(old_status, new_status) ==
    /\ old_status \in {"member", "administrator"}
    /\ new_status \in {"left", "kicked"}

\* group_id_detector.py:101-102
is_removed(old_status, new_status) ==
    /\ old_status \in {"member", "administrator"}
    /\ new_status = "left"

\* Variant: the removal branch changes the store and does not write the file.
mark_removed_in_memory_only(data, file, chat, t) ==
    LET group_key == str(chat.id)
    IN  IF group_key \in DOMAIN data.groups
        THEN [groups_data |->
                  [data EXCEPT !.groups =
                      (group_key :> removed(data.groups[group_key], t[1])) @@ data.groups],
              groups_file |-> file]
        ELSE [groups_data |-> data, groups_file |-> file]

\* group_id_detector.py:104-108: the store and the file after the removal
\* branch.  `t` holds the two values read from the clock, at line 107 and
\* at line 42 in save_groups_data; without a record the clock is not read.
mark_removed(data, file, chat, t) ==
    LET group_key == str(chat.id)
    IN  IF group_key \in DOMAIN data.groups
        THEN save_groups_data(
                 [data EXCEPT !.groups =
                     (group_key :> removed(data.groups[group_key], t[1])) @@ data.groups],
                 t[2])
        ELSE [groups_data |-> data, groups_file |-> file]

\* Variant: channels count as groups.
is_group_or_channel(chat) == chat.type \in {"group", "supergroup", "channel"}

\* group_id_detector.py:117, 148
is_group(chat) == chat.type \in {"group", "supergroup"}

\* Variant: the scan does not remember the chats it has saved.
unprocessed_always(chat, processed_chats) == TRUE

\* group_id_detector.py:149
unprocessed(chat, processed_chats) == chat.id \notin processed_chats

\* The status of the chat's record in the store, None without a record.
status_of(data, chat) ==
    IF str(chat.id) \in DOMAIN data.groups
    THEN data.groups[str(chat.id)].status
    ELSE None

\* One call of save_group_info, as the event log keeps it.
Saved(chat, event_type) == [chat_id |-> chat.id, event_type |-> event_type]

\* The number of times the loop of the startup scan calls save_group_info
\* (group_id_detector.py:147-153).
RECURSIVE scanned(_, _)
scanned(updates, processed_chats) ==
    IF updates = <<>> THEN 0
    ELSE LET chat == Head(updates)
         IN  IF chat # NoChat /\ is_group(chat) /\ unprocessed(chat, processed_chats)
             THEN 1 + scanned(Tail(updates), processed_chats \cup {chat.id})
             ELSE scanned(Tail(updates), processed_chats)

\* group_id_detector.py:135-158: the loop over the buffered updates.  `store`
\* is the store and the file so far, `saved` the save_group_info calls so
\* far, `t` the values the clock returns to the calls that follow, three to
\* each save_group_info.
RECURSIVE scan_updates(_, _, _, _, _)
scan_updates(store, updates, processed_chats, saved, t) ==
    IF updates = <<>>
    THEN [groups_data |-> store.groups_data, groups_file |-> store.groups_file,
          saved |-> saved]
    ELSE LET chat == Head(updates)
         IN  IF chat # NoChat /\ is_group(chat) /\ unprocessed(chat, processed_chats)
             THEN scan_updates(
                      save_group_info(store.groups_data, chat.id,
                                      title_or_default(chat.title), chat.type,
                                      "startup_scan", t),
                      Tail(updates),
                      processed_chats \cup {chat.id},
                      Append(saved, Saved(chat, "startup_scan")),
                      SubSeq(t, 4, Len(t)))
             ELSE scan_updates(store, Tail(updates), processed_chats, saved, t)

DetectorTypeInv ==
    /\ now \in 0..MaxTime
    /\ phase \in {"constructed", "polling", "failed"}
    /\ groups_file.state \in {"absent", "corrupt", "undecodable", "json"}
    /\ DOMAIN groups_data.groups \subseteq {str(c.id) : c \in DetectorChats}
    /\ event.handler \in {"none", "bot_added_handler", "message_handler",
                          "scan_existing_chats"}

\* GroupIDDetector.__init__ (group_id_detector.py:22-28) in a directory
\* whose detected_groups.json is missing or holds no JSON document.  A file
\* that holds JSON is one the detector dumped (group_id_detector.py:43-44);
\* the detector starts from such a file in `restart`.  When load_groups_data
\* raises, __init__ raises, main() prints the error and has no detector to
\* print the groups of (group_id_detector.py:214-223): run() is never
\* called, no handler runs and the file stays as it is.
DetectorInit ==
    /\ BotInit
    /\ SHOW_CHAT_ID = FALSE
    /\ groups_file \in {File(st) : st \in {"absent", "corrupt", "undecodable"}}
    /\ groups_data = load_groups_data(groups_file).value
    /\ now = 0
    /\ phase = IF load_groups_data(groups_file).outcome = "store"
               THEN "constructed" ELSE "failed"
    /\ event = NoEvent
    /\ NoDispatch
    /\ NoExport

\* The clock after an event that read the values t: time passes between
\* two events, also when the event does not read the clock.
Ends(t) == IF t = <<>> THEN now + 1 ELSE t[Len(t)]

\* group_id_detector.py:125-163, called once by run() before polling starts
\* (group_id_detector.py:199).  `fetched` is FALSE when bot.get_updates
\* raises; there is no buffer then and the except clause only prints.
\* run() then calls print_current_groups (group_id_detector.py:202,
\* 165-184), which changes nothing and returns: it reads "title", "id" and
\* "type" of each record, and every record of the store has them, written
\* by save_group_info (group_id_detector.py:51-59).  Polling starts
\* (group_id_detector.py:208).
scan_existing_chats(fetched, buffer) ==
    /\ phase = "constructed"
    /\ fetched \/ buffer = <<>>
    /\ now < MaxTime
    /\ phase' = "polling"
    /\ \E t \in Readings(3 * scanned(buffer, {}), now + 1) :
          /\ Ends(t) <= MaxTime
          /\ LET start == [groups_data |-> groups_data, groups_file |-> groups_file]
                 r == IF fetched
                      THEN scan_updates(start, buffer, {}, <<>>, t)
                      ELSE [groups_data |-> groups_data, groups_file |-> groups_file,
                            saved |-> <<>>]
             IN  /\ groups_data' = r.groups_data
                 /\ groups_file' = r.groups_file
                 /\ now' = Ends(t)
                 /\ event' = [handler |-> "scan_existing_chats", chat |-> NoChat,
                              old_status |-> None, new_status |-> None,
                              was |-> None,
                              fetched |-> fetched,
                              buffer |-> buffer,
                              saved |-> r.saved, readings |-> t]
    /\ UNCHANGED <<bot_vars, dispatch_vars, export_vars>>

\* group_id_detector.py:76-110, registered for my_chat_member updates
\* (group_id_detector.py:195).
bot_added_handler(chat, old_status, new_status) ==
    /\ phase = "polling"
    /\ now < MaxTime
    /\ \E t \in Readings(IF is_added(old_status, new_status) THEN 3
                         ELSE IF /\ is_removed(old_status, new_status)
                                 /\ status_of(groups_data, chat) # None THEN 2
                         ELSE 0, now + 1) :
          /\ Ends(t) <= MaxTime
          /\ LET r == IF is_added(old_status, new_status)
                      THEN save_group_info(groups_data, chat.id,
                                           title_or_default(chat.title), chat.type,
                                           "bot_added", t)
                      ELSE IF is_removed(old_status, new_status)
                      THEN mark_removed(groups_data, groups_file, chat, t)
                      ELSE [groups_data |-> groups_data, groups_file |-> groups_file]
             IN  /\ groups_data' = r.groups_data
                 /\ groups_file' = r.groups_file
                 /\ now' = Ends(t)
                 /\ event' = [handler |-> "bot_added_handler", chat |-> chat,
                              old_status |-> old_status, new_status |-> new_status,
                              was |-> status_of(groups_data, chat),
                              fetched |-> FALSE, buffer |-> <<>>,
                              saved |-> IF is_added(old_status, new_status)
                                        THEN <<Saved(chat, "bot_added")>>
                                        ELSE <<>>,
                              readings |-> t]
    /\ UNCHANGED <<phase, bot_vars, dispatch_vars, export_vars>>

\* group_id_detector.py:112-123, registered for every update with a message
\* (group_id_detector.py:196).
message_handler(chat) ==
    /\ phase = "polling"
    /\ now < MaxTime
    /\ \E t \in Readings(IF is_group(chat) THEN 3 ELSE 0, now + 1) :
          /\ Ends(t) <= MaxTime
          /\ now' = Ends(t)
          /\ LET r == IF is_group(chat)
                      THEN save_group_info(groups_data, chat.id,
                                           title_or_default(chat.title), chat.type,
                                           "message_received", t)
                      ELSE [groups_data |-> groups_data, groups_file |-> groups_file]
             IN  /\ groups_data' = r.groups_data
                 /\ groups_file' = r.groups_file
          /\ event' = [handler |-> "message_handler", chat |-> chat,
                       old_status |-> None, new_status |-> None,
                       was |-> status_of(groups_data, chat),
                       fetched |-> FALSE, buffer |-> <<>>,
                       saved |-> IF is_group(chat)
                                 THEN <<Saved(chat, "message_received")>>
                                 ELSE <<>>,
                       readings |-> t]
    /\ UNCHANGED <<phase, bot_vars, dispatch_vars, export_vars>>

\* The process is stopped and started again: __init__ loads the file
\* (group_id_detector.py:28) and run() scans before it polls.
restart ==
    /\ phase = "polling"
    /\ groups_data' = load_groups_data(groups_file).value
    /\ phase' = "constructed"
    /\ event' = NoEvent
    /\ UNCHANGED <<groups_file, now, bot_vars, dispatch_vars, export_vars>>

DetectorNext ==
    \/ \E fetched \in BOOLEAN, buffer \in Buffers : scan_existing_chats(fetched, buffer)
    \/ \E chat \in DetectorChats, old_status \in OldStatuses,
          new_status \in ChatMemberStatuses :
              bot_added_handler(chat, old_status, new_status)
    \/ \E chat \in DetectorChats : message_handler(chat)
    \/ restart

DetectorSpec == DetectorInit /\ [][DetectorNext]_vars

-----------------------------------------------------------------------------
(* Handler invocations of the detector dispatched as concurrent tasks of   *)
(* one event loop.  A task is cut where its code could be suspended: after *)
(* the in-memory mutation (group_id_detector.py:67, 106-107) and before    *)
(* the write of the file (group_id_detector.py:42-44).  A task that has    *)
(* the loop keeps it until it suspends at an await or returns.             *)

\* Number of handler invocations dispatched together.
MaxTasks == 2

\* The updates of the dispatched invocations: a message, an add transition
\* and a remove transition for every chat.
TaskUpdates ==
    [handler : {"message_handler"}, chat : DetectorChats,
     old_status : {None}, new_status : {None}]
    \cup
    [handler : {"bot_added_handler"}, chat : DetectorChats,
     old_status : {None}, new_status : {"member"}]
    \cup
    [handler : {"bot_added_handler"}, chat : DetectorChats,
     old_status : {"administrator"}, new_status : {"left"}]

\* A task that has not started: `t` holds the values its handler has read
\* from the clock, `saved` whether it called save_group_info.
Dispatched(u) == [update |-> u, pc |-> "dispatched", t |-> <<>>, saved |-> FALSE]

\* Variant: the write of the file is awaited, so the task gives up the
\* loop between the mutation and the write.
yields_before_write(position) == position = "mutated"

\* Whether a task at `position` gives the event loop to other tasks.
\* save_group_info and save_groups_data contain no await
\* (group_id_detector.py:40-68, simple_group_detector.py:32-62), and
\* `await self.save_group_info(...)` runs the coroutine inside the same
\* task, so a handler runs from its start to its return without suspension.
yields(position) == FALSE

\* The handler calls save_group_info for this update
\* (group_id_detector.py:88-96, 117-123).
saves(u) ==
    IF u.handler = "message_handler" THEN is_group(u.chat)
    ELSE is_added(u.old_status, u.new_status)

\* The handler takes the removal branch and finds a record
\* (group_id_detector.py:101-105).
removes(data, u) ==
    /\ u.handler = "bot_added_handler"
    /\ ~is_added(u.old_status, u.new_status)
    /\ is_removed(u.old_status, u.new_status)
    /\ str(u.chat.id) \in DOMAIN data.groups

\* The groups map after the handler's in-memory mutation
\* (group_id_detector.py:67, 106-107), before save_groups_data runs and
\* reads the clock once more; `t` holds the values read up to there.
mutated_groups(data, file, u, t) ==
    IF saves(u)
    THEN save_group_info(data, u.chat.id, title_or_default(u.chat.title), u.chat.type,
                         IF u.handler = "message_handler" THEN "message_received"
                                                          ELSE "bot_added",
                         Append(t, t[Len(t)])).groups_data.groups
    ELSE IF removes(data, u)
    THEN mark_removed(data, file, u.chat, Append(t, t[Len(t)])).groups_data.groups
    ELSE data.groups

ConcurrentInit ==
    /\ BotInit
    /\ SHOW_CHAT_ID = FALSE
    /\ groups_file = File("absent")
    /\ groups_data = load_groups_data(groups_file).value
    /\ now = 0
    /\ phase = "polling"
    /\ event = NoEvent
    /\ tasks \in [1..MaxTasks -> {Dispatched(u) : u \in TaskUpdates}]
    /\ running = 0
    /\ NoExport

\* The event loop starts task i: the handler runs up to the point where the
\* store is mutated and the file not yet written, or to its return when it
\* has nothing to write.
begin(i) ==
    /\ running = 0
    /\ tasks[i].pc = "dispatched"
    /\ LET u == tasks[i].update
           writes == saves(u) \/ removes(groups_data, u)
       IN  \E t \in Readings(IF saves(u) THEN 2
                             ELSE IF removes(groups_data, u) THEN 1 ELSE 0, now + 1) :
              /\ groups_data' =
                     [groups_data EXCEPT
                         !.groups = mutated_groups(groups_data, groups_file, u, t)]
              /\ tasks' = [tasks EXCEPT ![i] =
                     [update |-> u,
                      pc |-> IF writes THEN "mutated" ELSE "done",
                      t |-> t,
                      saved |-> saves(u)]]
              /\ running' = IF writes /\ ~yields("mutated") THEN i ELSE 0
              /\ now' = Ends(t)
    /\ UNCHANGED <<groups_file, phase, event, bot_vars, export_vars>>

\* Task i goes on: save_groups_data stamps the store and writes the whole
\* of it (group_id_detector.py:40-45); the handler returns.
write(i) ==
    /\ tasks[i].pc = "mutated"
    /\ running \in {0, i}
    /\ \E t \in Readings(1, now) :
          /\ LET r == save_groups_data(groups_data, t[1])
             IN  /\ groups_data' = r.groups_data
                 /\ groups_file' = r.groups_file
          /\ tasks' = [tasks EXCEPT ![i] = [@ EXCEPT !.pc = "done", !.t = @ \o t]]
          /\ now' = t[1]
    /\ running' = 0
    /\ UNCHANGED <<phase, event, bot_vars, export_vars>>

ConcurrentNext ==
    \/ \E i \in 1..MaxTasks : begin(i)
    \/ \E i \in 1..MaxTasks : write(i)

ConcurrentSpec == ConcurrentInit /\ [][ConcurrentNext]_vars

-----------------------------------------------------------------------------
(* The chat exporters: src/bot_export.py (the bot's update buffer),        *)
(* src/export_auto.py and src/export_chat_history.py (the history walk of  *)
(* a user session; the latter asks OpenAI for a description of every       *)
(* image).  An export run is a process of its own; ExportSpec is that      *)
(* process.  A run is cut at its awaits and between the iterations of its  *)
(* loop.                                                                   *)
(*                                                                         *)
(* The messages exported here come from an anonymous sender and are dated  *)
(* at the epoch (the scripts run in UTC): the sender fields and the date   *)
(* are copied from the message into the record, so they are left out of    *)
(* the ChatMessage records below and appear as literals in the lines of    *)
(* the *.jsonl file.                                                       *)

\* Length of the batch Telegram returns to the exporter.
MaxUpdates == 2

Scripts == {"bot_export", "export_auto", "export_chat_history"}

\* int(self.chat_id): the exported chat.
CHAT_ID == 0 - 1001

\* The entity of the exported chat as get_chat_info reads it
\* (export_auto.py:64-73, export_chat_history.py:69-78): entity.id and
\* entity.title, "Chat".
Entity ==
    [id |-> 1001, title |-> <<67, 104, 97, 116>>]

\* base64 of the re-encoded JPEG: "/9j/2Q=="
ImageBase64 ==
    <<47, 57, 106, 47, 50, 81, 61, 61>>

\* The descriptions the exporters give of a medium (Cyrillic):
\* "Izobrazhenie" (bot_export.py:117, export_auto.py:95), "Izobrazhenie (ne
\* udalos' zagruzit')" (bot_export.py:99, 103), "Izobrazhenie (oshibka
\* obrabotki)" (bot_export.py:121), "Dokument s izobrazheniem"
\* (bot_export.py:198, export_auto.py:114), "Stiker" (bot_export.py:204).
Description(name) ==
    CASE name = "image" ->
           <<1048, 1079, 1086, 1073, 1088, 1072, 1078, 1077, 1085, 1080, 1077>>
      [] name = "not loaded" ->
           <<1048, 1079, 1086, 1073, 1088, 1072, 1078, 1077, 1085, 1080, 1077, 32,
             40, 1085, 1077, 32, 1091, 1076, 1072, 1083, 1086, 1089, 1100, 32,
             1079, 1072, 1075, 1088, 1091, 1079, 1080, 1090, 1100, 41>>
      [] name = "not processed" ->
           <<1048, 1079, 1086, 1073, 1088, 1072, 1078, 1077, 1085, 1080, 1077, 32,
             40, 1086, 1096, 1080, 1073, 1082, 1072, 32, 1086, 1073, 1088, 1072,
             1073, 1086, 1090, 1082, 1080, 41>>
      [] name = "document" ->
           <<1044, 1086, 1082, 1091, 1084, 1077, 1085, 1090, 32, 1089, 32, 1080,
             1079, 1086, 1073, 1088, 1072, 1078, 1077, 1085, 1080, 1077, 1084>>
      [] name = "sticker" ->
           <<1057, 1090, 1080, 1082, 1077, 1088>>

\* The literals of prepare_for_vector_db: "Tekst: " (bot_export.py:269),
\* "Pustoe soobshchenie" (bot_export.py:286), " | " (bot_export.py:286,
\* export_auto.py:251), and what json.dumps writes for None, True and
\* False.
Literal(name) ==
    CASE name = "text label" ->
           <<1058, 1077, 1082, 1089, 1090, 58, 32>>
      [] name = "empty message" ->
           <<1055, 1091, 1089, 1090, 1086, 1077, 32, 1089, 1086, 1086, 1073, 1097,
             1077, 1085, 1080, 1077>>
      [] name = "separator" ->
           <<32, 124, 32>>
      [] name = "null" ->
           <<110, 117, 108, 108>>
      [] name = "true" ->
           <<116, 114, 117, 101>>
      [] name = "false" ->
           <<102, 97, 108, 115, 101>>

\* The keys of the records written, as json.dumps is given them.
Key(name) ==
    CASE name = "content" ->
           <<99, 111, 110, 116, 101, 110, 116>>
      [] name = "metadata" ->
           <<109, 101, 116, 97, 100, 97, 116, 97>>
      [] name = "image_base64" ->
           <<105, 109, 97, 103, 101, 95, 98, 97, 115, 101, 54, 52>>
      [] name = "message_id" ->
           <<109, 101, 115, 115, 97, 103, 101, 95, 105, 100>>
      [] name = "chat_id" ->
           <<99, 104, 97, 116, 95, 105, 100>>
      [] name = "chat_title" ->
           <<99, 104, 97, 116, 95, 116, 105, 116, 108, 101>>
      [] name = "user_id" ->
           <<117, 115, 101, 114, 95, 105, 100>>
      [] name = "username" ->
           <<117, 115, 101, 114, 110, 97, 109, 101>>
      [] name = "user_full_name" ->
           <<117, 115, 101, 114, 95, 102, 117, 108, 108, 95, 110, 97, 109,
             101>>
      [] name = "date" ->
           <<100, 97, 116, 101>>
      [] name = "message_type" ->
           <<109, 101, 115, 115, 97, 103, 101, 95, 116, 121, 112, 101>>
      [] name = "has_media" ->
           <<104, 97, 115, 95, 109, 101, 100, 105, 97>>
      [] name = "reply_to_message_id" ->
           <<114, 101, 112, 108, 121, 95, 116, 111, 95, 109, 101, 115, 115,
             97, 103, 101, 95, 105, 100>>

\* The label of the media description in a line: "Media: " in
\* bot_export.py:272, "Izobrazhenie: " in export_auto.py:235 and
\* export_chat_history.py:289 (Cyrillic).
LabelMedia(s) ==
    IF s = "bot_export" THEN <<1052, 1077, 1076, 1080, 1072, 58, 32>>
    ELSE <<1048, 1079, 1086, 1073, 1088, 1072, 1078, 1077, 1085, 1080, 1077,
           58, 32>>

\* The date of the messages: datetime.fromtimestamp(0).isoformat() in
\* bot_export.py:178, message.date.isoformat() of a date with tzinfo UTC in
\* export_auto.py:169.
Date(s) ==
    IF s = "bot_export"
    THEN <<49, 57, 55, 48, 45, 48, 49, 45, 48, 49, 84, 48, 48, 58, 48, 48,
           58, 48, 48>>
    ELSE <<49, 57, 55, 48, 45, 48, 49, 45, 48, 49, 84, 48, 48, 58, 48, 48,
           58, 48, 48, 43, 48, 48, 58, 48, 48>>

-----------------------------------------------------------------------------
(* Inputs of an export run: what Telegram returns.                         *)

\* The text of a message: none, or a text with a line feed, a quote, a
\* backspace and a unit separator.
ExportTexts == {<<>>, <<1084, 10, 34, 8, 31>>}

\* response.choices[0].message.content (export_chat_history.py:107): a
\* description of two lines.
OpenAIDescription ==
    <<1084, 10, 1077>>

MessageIds == {7, 12}

\* An update without the key "message" (bot_export.py:153), or an object of
\* the history that is not a Message (export_auto.py:131).
NotAMessage ==
    [object |-> "other", chat |-> CHAT_ID, message_id |-> 0, text |-> <<>>,
     media |-> "none", mime |-> <<>>, expired |-> FALSE]

\* A message: its chat, id and text, the media it carries ("none", "photo",
\* "document", "sticker"), the MIME type of its document, and whether the
\* document itself is gone (media.document is None).
SourceMessage(chat, id, text, media, mime, expired) ==
    [object |-> "message", chat |-> chat, message_id |-> id, text |-> text,
     media |-> media, mime |-> mime, expired |-> expired]

TextOnlyMessages ==
    {SourceMessage(CHAT_ID, id, text, "none", <<>>, FALSE) :
        id \in MessageIds, text \in ExportTexts}

\* The Bot API gives a photo a caption, never a text; the user session
\* gives the caption as message.text.
PhotoMessages(s) ==
    {SourceMessage(CHAT_ID, id, text, "photo", <<>>, FALSE) :
        id \in MessageIds,
        text \in IF s = "bot_export" THEN {<<>>} ELSE ExportTexts}

DocumentMessages ==
    {SourceMessage(CHAT_ID, 7, <<>>, "document", mime, FALSE) :
        mime \in MimeTypes \ {<<>>}}

\* What Telegram may deliver: besides the messages above, an object that
\* is no message; to the bot a sticker and a message of another chat it is
\* in (bot_export.py:155); to the user session a document that is gone.
SourceItems(s) ==
    IF s = "bot_export"
    THEN {NotAMessage} \cup TextOnlyMessages \cup PhotoMessages(s)
         \cup DocumentMessages
         \cup {SourceMessage(CHAT_ID, 12, <<>>, "sticker", <<>>, FALSE),
               SourceMessage(CHAT_ID - 1, 7, <<1084, 10, 34, 8, 31>>, "none", <<>>, FALSE)}
    ELSE {NotAMessage} \cup TextOnlyMessages \cup PhotoMessages(s)
         \cup DocumentMessages
         \cup {SourceMessage(CHAT_ID, 12, <<>>, "document", <<>>, TRUE)}

\* The batches getUpdates may return (bot_export.py:135-137).
Batches(s) == UNION {[1..n -> SourceItems(s)] : n \in 0..MaxUpdates}

\* What a request to Telegram or to OpenAI comes to: an answer the code
\* goes on with, an answer it does not go on with (a status other than
\* 200, "ok": false, no bytes), or an exception.
Answers == {"ok", "refused", "raises"}

-----------------------------------------------------------------------------
(* The export loop.                                                        *)

\* bot_export.py:152-156 and export_auto.py:130-132: the messages kept.
kept(s, u) ==
    IF s = "bot_export"
    THEN u.object = "message" /\ u.chat = CHAT_ID
    ELSE u.object = "message"

filter_messages(s, batch) == SelectSeq(batch, LAMBDA u : kept(s, u))

NoMedia == [image_base64 |-> <<>>, media_description |-> <<>>]

\* BotChatExporter.process_photo (bot_export.py:88-121).
process_photo(outcome) ==
    CASE outcome = "no file path" ->
           [image_base64 |-> <<>>, media_description |-> Description("not loaded")]
      [] outcome = "no bytes" ->
           [image_base64 |-> <<>>, media_description |-> Description("not loaded")]
      [] outcome = "not an image" ->
           [image_base64 |-> <<>>, media_description |-> Description("not processed")]
      [] OTHER ->
           [image_base64 |-> ImageBase64, media_description |-> Description("image")]

\* The message carries an image process_media downloads
\* (export_auto.py:81-83, 100-103, export_chat_history.py:118-121, 143-147).
has_image(m) ==
    \/ m.media = "photo"
    \/ m.media = "document" /\ ~m.expired /\ startswith(m.mime, ImagePrefix)

\* TelegramChatExporter.process_media (export_auto.py:75-119,
\* export_chat_history.py:112-164).  The outcome is "image" when the file
\* was downloaded and decoded, "described" when OpenAI described it as
\* well; in export_chat_history.py the description is OpenAI's or None.
process_media(s, m, outcome) ==
    IF ~has_image(m) THEN NoMedia
    ELSE CASE outcome = "image" ->
                [image_base64 |-> ImageBase64,
                 media_description |->
                     IF s = "export_chat_history" THEN <<>>
                     ELSE IF m.media = "photo" THEN Description("image")
                     ELSE Description("document")]
           [] outcome = "described" ->
                [image_base64 |-> ImageBase64,
                 media_description |-> OpenAIDescription]
           [] OTHER -> NoMedia

\* export_auto.py:101 and export_chat_history.py:145 are outside the try of
\* process_media: message.media.document.mime_type raises when the document
\* is gone.
process_media_raises(m) == m.media = "document" /\ m.expired

\* bot_export.py:166-221: the ChatMessage made from a message.
bot_chat_message(m, outcome) ==
    LET media == IF m.media = "photo" THEN process_photo(outcome)
                 ELSE IF m.media = "document"
                 THEN [image_base64 |-> <<>>,
                       media_description |->
                           IF startswith(m.mime, ImagePrefix)
                           THEN Description("document") ELSE <<>>]
                 ELSE IF m.media = "sticker"
                 THEN [image_base64 |-> <<>>, media_description |-> Description("sticker")]
                 ELSE NoMedia
    IN  [id |-> m.message_id,
         chat_id |-> CHAT_ID,
         text |-> m.text,
         message_type |-> IF m.media = "none" THEN "text" ELSE m.media,
         has_media |-> m.media # "none",
         media_description |-> media.media_description,
         image_base64 |-> media.image_base64]

\* export_auto.py:138-178, export_chat_history.py:183-228: the ChatMessage
\* made from a message.
auto_chat_message(s, m, outcome) ==
    LET media == process_media(s, m, outcome)
    IN  [id |-> m.message_id,
         chat_id |-> Entity.id,
         chat_title |-> Entity.title,
         text |-> m.text,
         message_type |-> IF m.media \in {"photo", "document"} THEN m.media ELSE "text",
         has_media |-> m.media # "none",
         media_description |-> media.media_description,
         image_base64 |-> media.image_base64,
         reply_to_message_id |-> None]

-----------------------------------------------------------------------------
(* The two output files.                                                   *)

\* The dictionary save_to_json makes of a ChatMessage (bot_export.py:236-249,
\* export_auto.py:197-212); None is the empty sequence here.
msg_dict(s, msg) ==
    IF s = "bot_export"
    THEN [id |-> msg.id, chat_id |-> msg.chat_id, text |-> msg.text,
          message_type |-> msg.message_type, has_media |-> msg.has_media,
          media_description |-> msg.media_description,
          image_base64 |-> msg.image_base64]
    ELSE [id |-> msg.id, chat_id |-> msg.chat_id, chat_title |-> msg.chat_title,
          text |-> msg.text,
          message_type |-> msg.message_type, has_media |-> msg.has_media,
          media_description |-> msg.media_description,
          image_base64 |-> msg.image_base64,
          reply_to_message_id |-> msg.reply_to_message_id]

\* save_to_json: json.dump of the list of dictionaries; the array read back
\* from the file has the dictionaries written, in their order.
save_to_json(s, exported) ==
    [written |-> TRUE,
     array |-> [i \in 1..Len(exported) |-> msg_dict(s, exported[i])]]

\* What json.dumps(..., ensure_ascii=False) writes between the quotes of a
\* string: the quote and the backslash are escaped, the control characters
\* BS, FF, LF, CR and TAB get their short escape, every other character
\* below U+0020 is written as \u00XX, everything else as it is.
RECURSIVE escape(_)
escape(s) ==
    IF s = <<>> THEN <<>>
    ELSE (CASE Head(s) = 34 -> <<92, 34>>
            [] Head(s) = 92 -> <<92, 92>>
            [] Head(s) = 10 -> <<92, 110>>
            [] Head(s) = 13 -> <<92, 114>>
            [] Head(s) = 9 -> <<92, 116>>
            [] Head(s) = 8 -> <<92, 98>>
            [] Head(s) = 12 -> <<92, 102>>
            [] Head(s) < 32 /\ Head(s) \notin {8, 9, 10, 12, 13} ->
                 LET hexdigit(d) == IF d < 10 THEN 48 + d ELSE 87 + d
                 IN  <<92, 117, 48, 48, hexdigit(Head(s) \div 16),
                       hexdigit(Head(s) % 16)>>
            [] OTHER -> <<Head(s)>>) \o escape(Tail(s))

\* A writer that puts the string between the quotes as it is.
dumps_str_unescaped(s) == <<34>> \o s \o <<34>>

dumps_str(s) == <<34>> \o escape(s) \o <<34>>

RECURSIVE decimal(_)
decimal(n) ==
    IF n < 10 THEN <<48 + n>> ELSE decimal(n \div 10) \o <<48 + (n % 10)>>

dumps_int(n) == IF n < 0 THEN <<45>> \o decimal(0 - n) ELSE decimal(n)

\* sep.join(parts)
RECURSIVE joined(_, _)
joined(parts, sep) ==
    IF parts = <<>> THEN <<>>
    ELSE IF Len(parts) = 1 THEN parts[1]
    ELSE parts[1] \o sep \o joined(Tail(parts), sep)

\* "key": value
member(key, value) == dumps_str(key) \o <<58, 32>> \o value

\* {member, member, ...}
dumps_object(members) == <<123>> \o joined(members, <<44, 32>>) \o <<125>>

\* The message_type of a ChatMessage as the string it is in the code.
type_name(message_type) ==
    CASE message_type = "photo" -> <<112, 104, 111, 116, 111>>
      [] message_type = "document" -> <<100, 111, 99, 117, 109, 101, 110, 116>>
      [] message_type = "sticker" -> <<115, 116, 105, 99, 107, 101, 114>>
      [] OTHER -> <<116, 101, 120, 116>>

\* bot_export.py:266-272, export_auto.py:229-235.
content_parts(s, msg) ==
    (IF msg.text # <<>> THEN <<Literal("text label") \o msg.text>> ELSE <<>>)
    \o (IF msg.media_description # <<>>
        THEN <<LabelMedia(s) \o msg.media_description>>
        ELSE <<>>)

\* bot_export.py:286, export_auto.py:251.
content(s, msg) ==
    IF s = "bot_export" /\ content_parts(s, msg) = <<>> THEN Literal("empty message")
    ELSE joined(content_parts(s, msg), Literal("separator"))

\* bot_export.py:274-283, export_auto.py:237-248, for an anonymous sender.
metadata(s, msg) ==
    IF s = "bot_export"
    THEN dumps_object(<<member(Key("message_id"), dumps_int(msg.id)),
                        member(Key("chat_id"), dumps_int(msg.chat_id)),
                        member(Key("user_id"), Literal("null")),
                        member(Key("username"), Literal("null")),
                        member(Key("user_full_name"), dumps_str(<<>>)),
                        member(Key("date"), dumps_str(Date(s))),
                        member(Key("message_type"), dumps_str(type_name(msg.message_type))),
                        member(Key("has_media"), Literal(IF msg.has_media THEN "true" ELSE "false"))>>)
    ELSE dumps_object(<<member(Key("message_id"), dumps_int(msg.id)),
                        member(Key("chat_id"), dumps_int(msg.chat_id)),
                        member(Key("chat_title"), dumps_str(msg.chat_title)),
                        member(Key("user_id"), Literal("null")),
                        member(Key("username"), Literal("null")),
                        member(Key("user_full_name"), Literal("null")),
                        member(Key("date"), dumps_str(Date(s))),
                        member(Key("message_type"), dumps_str(type_name(msg.message_type))),
                        member(Key("has_media"), Literal(IF msg.has_media THEN "true" ELSE "false")),
                        member(Key("reply_to_message_id"), Literal("null"))>>)

\* json.dumps(vector_entry, ensure_ascii=False)
\* (bot_export.py:285-293, export_auto.py:250-258).
vector_entry(s, msg) ==
    dumps_object(<<member(Key("content"), dumps_str(content(s, msg))),
                   member(Key("metadata"), metadata(s, msg))>>
                 \o (IF msg.image_base64 # <<>>
                     THEN <<member(Key("image_base64"), dumps_str(msg.image_base64))>>
                     ELSE <<>>))

\* The loop of prepare_for_vector_db: f.write(json.dumps(...) + '\n').
RECURSIVE written_lines(_, _)
written_lines(s, exported) ==
    IF exported = <<>> THEN <<>>
    ELSE vector_entry(s, Head(exported)) \o <<10>> \o written_lines(s, Tail(exported))

prepare_for_vector_db(s, exported) ==
    [written |-> TRUE, text |-> written_lines(s, exported)]

-----------------------------------------------------------------------------
(* The export run.                                                         *)

ExportInit ==
    /\ BotInit
    /\ SHOW_CHAT_ID = FALSE
    /\ DetectorUnused
    /\ script \in Scripts
    /\ openai_api_key \in IF script = "export_chat_history" THEN BOOLEAN ELSE {FALSE}
    /\ export_pc = IF script = "bot_export" THEN "getChat" ELSE "client.start"
    /\ history = <<>>
    /\ messages = <<>>
    /\ index = 0
    /\ exported_messages = <<>>
    /\ json_file = [written |-> FALSE, array |-> <<>>]
    /\ jsonl_file = [written |-> FALSE, text |-> <<>>]

\* main once the export method has returned: it has no await before it
\* calls save_to_json and prepare_for_vector_db, and writes no file when
\* nothing was exported (bot_export.py:308-318, export_auto.py:279-288,
\* export_chat_history.py:349-361).
main(exported) ==
    IF exported # <<>>
    THEN /\ json_file' = save_to_json(script, exported)
         /\ jsonl_file' = prepare_for_vector_db(script, exported)
    ELSE UNCHANGED <<json_file, jsonl_file>>

\* The end of an iteration of the loop that leaves `exported` in
\* self.exported_messages (bot_export.py:221-227, export_auto.py:178-185,
\* export_chat_history.py:228-235).  After the last iteration the export
\* method returns: in bot_export.py the session is closed first (the end
\* of the `async with` of line 144); in the other two main goes on at once
\* and then awaits exporter.close() (export_auto.py:293,
\* export_chat_history.py:366).
Continue(exported) ==
    /\ exported_messages' = exported
    /\ index' = index + 1
    /\ IF index + 1 < Len(messages)
       THEN /\ export_pc' = "loop"
            /\ UNCHANGED <<json_file, jsonl_file>>
       ELSE IF script = "bot_export"
       THEN /\ export_pc' = "session.__aexit__"
            /\ UNCHANGED <<json_file, jsonl_file>>
       ELSE /\ export_pc' = "client.disconnect"
            /\ main(exported)

\* BotChatExporter.get_chat_info (bot_export.py:48-59), awaited at line 145:
\* the request, then response.json().  The title is only printed; an
\* exception is caught nowhere before main, and leaves through the
\* `async with` of line 144.
get_chat_info(outcome) ==
    /\ export_pc \in {"getChat", "getChat json"}
    /\ export_pc' = IF outcome = "raises" THEN "session.__aexit__"
                    ELSE IF export_pc = "getChat" /\ outcome = "ok" THEN "getChat json"
                    ELSE "getUpdates"
    /\ UNCHANGED <<script, openai_api_key, history, messages, index,
                   exported_messages, json_file, jsonl_file>>
    /\ UNCHANGED <<bot_vars, detector_vars, dispatch_vars>>

\* BotChatExporter.get_updates (bot_export.py:123-140), awaited at line
\* 149: the request, then response.json(); whatever fails gives [].  Then
\* export_recent_messages filters the updates (lines 151-162).
get_updates(outcome) ==
    /\ export_pc \in {"getUpdates", "getUpdates json"}
    /\ IF export_pc = "getUpdates" /\ outcome = "ok"
       THEN /\ export_pc' = "getUpdates json"
            /\ UNCHANGED <<history, messages>>
       ELSE \E updates \in IF outcome = "ok" THEN Batches(script) ELSE {<<>>} :
                /\ history' = updates
                /\ messages' = filter_messages(script, updates)
                /\ export_pc' = IF filter_messages(script, updates) = <<>>
                                THEN "session.__aexit__" ELSE "loop"
    /\ UNCHANGED <<script, openai_api_key, index, exported_messages,
                   json_file, jsonl_file>>
    /\ UNCHANGED <<bot_vars, detector_vars, dispatch_vars>>

\* The start of an iteration of the loop (bot_export.py:164-190,
\* export_auto.py:136-160, export_chat_history.py:181-210), up to the first
\* await of the iteration or, for a message nothing is downloaded of, to
\* its end.
process_message ==
    /\ export_pc = "loop"
    /\ LET m == messages[index + 1]
       IN  IF script = "bot_export" /\ m.media = "photo"
           THEN /\ export_pc' = "getFile"
                /\ UNCHANGED <<index, exported_messages, json_file, jsonl_file>>
           ELSE IF script = "bot_export"
           THEN Continue(Append(exported_messages, bot_chat_message(m, "no download")))
           ELSE IF process_media_raises(m)
           THEN Continue(exported_messages)
           ELSE IF has_image(m)
           THEN /\ export_pc' = "download_media"
                /\ UNCHANGED <<index, exported_messages, json_file, jsonl_file>>
           ELSE Continue(Append(exported_messages,
                                auto_chat_message(script, m, "no download")))
    /\ UNCHANGED <<script, openai_api_key, history, messages>>
    /\ UNCHANGED <<bot_vars, detector_vars, dispatch_vars>>

\* BotChatExporter.get_file_info (bot_export.py:73-86), awaited at line 97:
\* the request, then response.json(); without a file path process_photo
\* returns at line 99.
get_file_info(outcome) ==
    /\ export_pc \in {"getFile", "getFile json"}
    /\ IF outcome = "ok"
       THEN /\ export_pc' = IF export_pc = "getFile" THEN "getFile json" ELSE "file"
            /\ UNCHANGED <<index, exported_messages, json_file, jsonl_file>>
       ELSE Continue(Append(exported_messages,
                            bot_chat_message(messages[index + 1], "no file path")))
    /\ UNCHANGED <<script, openai_api_key, history, messages>>
    /\ UNCHANGED <<bot_vars, detector_vars, dispatch_vars>>

\* BotChatExporter.download_file (bot_export.py:61-71), awaited at line
\* 101: the request, then response.read(); with the bytes process_photo
\* decodes and re-encodes the image (lines 105-121).
download_file(outcome) ==
    /\ export_pc \in {"file", "file read"}
    /\ outcome = "not an image" => export_pc = "file read"
    /\ IF export_pc = "file" /\ outcome = "ok"
       THEN /\ export_pc' = "file read"
            /\ UNCHANGED <<index, exported_messages, json_file, jsonl_file>>
       ELSE Continue(Append(exported_messages,
                            bot_chat_message(messages[index + 1],
                                             IF outcome = "ok" THEN "image"
                                             ELSE IF outcome = "not an image" THEN outcome
                                             ELSE "no bytes")))
    /\ UNCHANGED <<script, openai_api_key, history, messages>>
    /\ UNCHANGED <<bot_vars, detector_vars, dispatch_vars>>

\* The end of `async with aiohttp.ClientSession()` (bot_export.py:144):
\* ClientSession.__aexit__ is awaited when export_recent_messages leaves
\* the block, and main goes on after it (lines 306-318).
session_aexit ==
    /\ export_pc = "session.__aexit__"
    /\ export_pc' = "done"
    /\ main(exported_messages)
    /\ UNCHANGED <<script, openai_api_key, history, messages, index, exported_messages>>
    /\ UNCHANGED <<bot_vars, detector_vars, dispatch_vars>>

\* TelegramChatExporter.connect (export_auto.py:59-62,
\* export_chat_history.py:64-67); an exception goes to the except clause
\* of main and on to exporter.close().
connect(ok) ==
    /\ export_pc = "client.start"
    /\ export_pc' = IF ok THEN "get_entity" ELSE "client.disconnect"
    /\ UNCHANGED <<script, openai_api_key, history, messages, index,
                   exported_messages, json_file, jsonl_file>>
    /\ UNCHANGED <<bot_vars, detector_vars, dispatch_vars>>

\* client.get_entity (export_auto.py:124, export_chat_history.py:169); an
\* exception ends export_chat_history at its except clause
\* (export_auto.py:187-188, export_chat_history.py:237-238).
get_entity(ok) ==
    /\ export_pc = "get_entity"
    /\ export_pc' = IF ok THEN "iter_messages" ELSE "client.disconnect"
    /\ UNCHANGED <<script, openai_api_key, history, messages, index,
                   exported_messages, json_file, jsonl_file>>
    /\ UNCHANGED <<bot_vars, detector_vars, dispatch_vars>>

\* One step of `async for message in self.client.iter_messages(...)`
\* (export_auto.py:130-132, export_chat_history.py:175-177): the next
\* object of the history, the end of the history, or an exception, with
\* which the list so far is lost and nothing is exported.
iter_messages(outcome, item) ==
    /\ export_pc = "iter_messages"
    /\ CASE outcome = "next" ->
              /\ Len(history) < MaxUpdates
              /\ history' = Append(history, item)
              /\ messages' = IF kept(script, item) THEN Append(messages, item)
                             ELSE messages
              /\ export_pc' = "iter_messages"
         [] outcome = "end" ->
              /\ export_pc' = IF messages = <<>> THEN "client.disconnect" ELSE "loop"
              /\ UNCHANGED <<history, messages>>
         [] OTHER ->
              /\ export_pc' = "client.disconnect"
              /\ messages' = <<>>
              /\ UNCHANGED history
    /\ UNCHANGED <<script, openai_api_key, index, exported_messages,
                   json_file, jsonl_file>>
    /\ UNCHANGED <<bot_vars, detector_vars, dispatch_vars>>

\* client.download_media in process_media (export_auto.py:83, 103,
\* export_chat_history.py:121, 147) and the decoding that follows it.  In
\* export_chat_history.py an image is then described by OpenAI when the
\* key is set (lines 82-83, 138, 159).
download_media(outcome) ==
    /\ export_pc = "download_media"
    /\ IF script = "export_chat_history" /\ outcome = "image" /\ openai_api_key
       THEN /\ export_pc' = "acreate"
            /\ UNCHANGED <<index, exported_messages, json_file, jsonl_file>>
       ELSE Continue(Append(exported_messages,
                            auto_chat_message(script, messages[index + 1], outcome)))
    /\ UNCHANGED <<script, openai_api_key, history, messages>>
    /\ UNCHANGED <<bot_vars, detector_vars, dispatch_vars>>

\* TelegramChatExporter.describe_image_with_openai
\* (export_chat_history.py:80-110): the answer of
\* openai.ChatCompletion.acreate, or None when it raised.
describe_image_with_openai(ok) ==
    /\ export_pc = "acreate"
    /\ Continue(Append(exported_messages,
                       auto_chat_message(script, messages[index + 1],
                                         IF ok THEN "described" ELSE "image")))
    /\ UNCHANGED <<script, openai_api_key, history, messages>>
    /\ UNCHANGED <<bot_vars, detector_vars, dispatch_vars>>

\* TelegramChatExporter.close (export_auto.py:263-265,
\* export_chat_history.py:320-322), awaited in the finally clause of main.
close ==
    /\ export_pc = "client.disconnect"
    /\ export_pc' = "done"
    /\ UNCHANGED <<script, openai_api_key, history, messages, index,
                   exported_messages, json_file, jsonl_file>>
    /\ UNCHANGED <<bot_vars, detector_vars, dispatch_vars>>

ExportNext ==
    \/ \E outcome \in Answers : get_chat_info(outcome)
    \/ \E outcome \in Answers : get_updates(outcome)
    \/ process_message
    \/ \E outcome \in Answers : get_file_info(outcome)
    \/ \E outcome \in Answers \cup {"not an image"} : download_file(outcome)
    \/ session_aexit
    \/ \E ok \in BOOLEAN : connect(ok)
    \/ \E ok \in BOOLEAN : get_entity(ok)
    \/ \E outcome \in {"next", "end", "raises"}, item \in SourceItems(script) :
          iter_messages(outcome, item)
    \/ \E outcome \in {"image", "no bytes", "not an image", "raises"} :
          download_media(outcome)
    \/ \E ok \in BOOLEAN : describe_image_with_openai(ok)
    \/ close

ExportSpec == ExportInit /\ [][ExportNext]_vars

-----------------------------------------------------------------------------
(* Vocabulary of the detector's properties.                                *)

Groups == groups_data.groups

\* The "groups" map a reader of detected_groups.json gets.
FileGroups == load_groups_data(groups_file).value.groups

\* The key of the chat the last event was about.
EventKey == str(event.chat.id)

\* The last event was a membership update of the given direction.
AddEvent ==
    /\ event.handler = "bot_added_handler"
    /\ event.old_status \in {None, "left"}
    /\ event.new_status \in {"member", "administrator"}

RemoveEvent ==
    /\ event.handler = "bot_added_handler"
    /\ event.old_status \in {"member", "administrator"}
    /\ event.new_status = "left"

MessageEvent == event.handler = "message_handler"

ScanEvent == event.handler = "scan_existing_chats" /\ event.fetched

GroupTyped(chat) == chat.type = "group" \/ chat.type = "supergroup"

HasRemovedAt(info) == "removed_at" \in DOMAIN info

\* A handler ran in this step.
Handled == event' # event /\ event'.handler # "none"

-----------------------------------------------------------------------------
\* The store holds one record, created by a bot_added event that was the
\* last event: the bot was added to a chat while the store was empty.
AddedToEmptyStore ==
    /\ AddEvent
    /\ DOMAIN Groups = {EventKey}
    /\ Groups[EventKey].first_detected = isoformat(event.readings[1])

(* C14: when the bot is added to a chat while the store is empty and is    *)
(* removed from that chat next, the store (and the file) hold exactly one  *)
(* record, for that chat, with status "removed", removed_at set to the     *)
(* time of the removal, and first_detected as the add event wrote it.      *)
C14_AddThenRemove ==
    [][ ( /\ AddedToEmptyStore
          /\ Handled
          /\ RemoveEvent'
          /\ event'.chat.id = event.chat.id ) =>
            /\ DOMAIN Groups' = {EventKey}
            /\ Groups'[EventKey].status = "removed"
            /\ HasRemovedAt(Groups'[EventKey])
            /\ Groups'[EventKey].removed_at = isoformat(event'.readings[1])
            /\ Groups'[EventKey].removed_at # None
            /\ Groups'[EventKey].first_detected = isoformat(event.readings[1])
            /\ Groups'[EventKey].first_detected = Groups[EventKey].first_detected
            /\ FileGroups' = Groups' ]_vars

\* After a startup scan that found nothing, chat -100123 was added at time
\* 2 and removed at time 3.
C14_Witness ==
    /\ RemoveEvent
    /\ event.chat.id = -100123
    /\ event.readings = <<3, 3>>
    /\ DOMAIN Groups = {EventKey}
    /\ Groups[EventKey].event_type = "bot_added"
    /\ Groups[EventKey].status = "removed"
    /\ Groups[EventKey].removed_at = isoformat(3)
    /\ Groups[EventKey].first_detected = isoformat(2)
    /\ Groups[EventKey].last_activity = isoformat(2)
    /\ FileGroups = Groups

-----------------------------------------------------------------------------
(* C15: after a membership update whose old status is missing or "left"    *)
(* and whose new status is "member" or "administrator", the store holds a  *)
(* record for the chat with event_type "bot_added", status "active", no    *)
(* removed_at, the chat's id, type and title (or the default title), and   *)
(* last_activity at the time of the update (the second value the handler   *)
(* reads from the clock; the third stamps the store).                      *)
C15_AddRecordsActive ==
    AddEvent =>
        /\ EventKey \in DOMAIN Groups
        /\ Groups[EventKey].event_type = "bot_added"
        /\ Groups[EventKey].status = "active"
        /\ ~HasRemovedAt(Groups[EventKey])
        /\ Groups[EventKey].id = event.chat.id
        /\ Groups[EventKey].type = event.chat.type
        /\ Groups[EventKey].title =
               (IF event.chat.title = None THEN DefaultTitle ELSE event.chat.title)
        /\ Len(event.readings) = 3
        /\ Groups[EventKey].last_activity = isoformat(event.readings[2])
        /\ groups_data.last_updated = isoformat(event.readings[3])
        /\ event.saved = <<Saved(event.chat, "bot_added")>>

\* The record of a chat without title is refreshed by an update that has no
\* old_chat_member.
C15_Witness ==
    /\ AddEvent
    /\ event.old_status = None
    /\ event.new_status = "administrator"
    /\ event.chat.title = None
    /\ Groups[EventKey].title = DefaultTitle
    /\ Groups[EventKey].first_detected # isoformat(event.readings[1])
    /\ event.readings[2] # event.readings[3]
    /\ Groups[EventKey].status = "active"

-----------------------------------------------------------------------------
(* C16 as stated: after every membership update from "member" or           *)
(* "administrator" to "left" the store holds a record for the chat with    *)
(* status "removed" and removed_at set, whether or not the chat was        *)
(* recorded before.                                                        *)
C16_RemovalAlwaysRecorded ==
    RemoveEvent =>
        /\ EventKey \in DOMAIN Groups
        /\ Groups[EventKey].status = "removed"
        /\ HasRemovedAt(Groups[EventKey])

(* C16, amended: a membership update from "member" or "administrator" to   *)
(* "left" for a chat that has a record sets that record's status to        *)
(* "removed" and its removed_at to the time of the update, leaves its      *)
(* other fields and the other records alone and writes the file; for a     *)
(* chat without record it creates none and writes nothing.                 *)
C16_RemovalMarksRecordedChat ==
    [][ (Handled /\ RemoveEvent') =>
          LET key == str(event'.chat.id)
          IN  IF key \in DOMAIN Groups
              THEN /\ DOMAIN Groups' = DOMAIN Groups
                   /\ Groups'[key].status = "removed"
                   /\ HasRemovedAt(Groups'[key])
                   /\ Len(event'.readings) = 2
                   /\ Groups'[key].removed_at = isoformat(event'.readings[1])
                   /\ groups_data'.last_updated = isoformat(event'.readings[2])
                   /\ \A f \in {"id", "title", "type", "first_detected",
                                "last_activity", "event_type"} :
                          Groups'[key][f] = Groups[key][f]
                   /\ \A k \in DOMAIN Groups \ {key} : Groups'[k] = Groups[k]
                   /\ FileGroups' = Groups'
              ELSE /\ groups_data' = groups_data
                   /\ groups_file' = groups_file
                   /\ event'.readings = <<>> ]_vars

\* An administrator bot left a recorded chat; the store was stamped later
\* than the record.
C16_Witness ==
    /\ RemoveEvent
    /\ event.old_status = "administrator"
    /\ EventKey \in DOMAIN Groups
    /\ Groups[EventKey].status = "removed"
    /\ Groups[EventKey].removed_at = isoformat(event.readings[1])
    /\ Groups[EventKey].last_activity # isoformat(event.readings[1])
    /\ groups_data.last_updated # Groups[EventKey].removed_at
    /\ FileGroups = Groups

-----------------------------------------------------------------------------
(* C17: a message from a group or supergroup leaves a record for that chat *)
(* with event_type "message_received", status "active" and last_activity   *)
(* at the time of the message, later than the one it had; a                *)
(* message from a chat of another type changes neither the store nor the   *)
(* file.                                                                   *)
C17_MessageRefreshesGroup ==
    [][ (Handled /\ MessageEvent') =>
          LET key == str(event'.chat.id)
          IN  IF GroupTyped(event'.chat)
              THEN /\ key \in DOMAIN Groups'
                   /\ Groups'[key].event_type = "message_received"
                   /\ Groups'[key].status = "active"
                   /\ Groups'[key].last_activity = isoformat(event'.readings[2])
                   /\ key \in DOMAIN Groups =>
                          Groups'[key].last_activity # Groups[key].last_activity
                   /\ \A k \in DOMAIN Groups \ {key} :
                          k \in DOMAIN Groups' /\ Groups'[k] = Groups[k]
                   /\ FileGroups' = Groups'
              ELSE /\ groups_data' = groups_data
                   /\ groups_file' = groups_file ]_vars

\* A message arrived from a group that was recorded earlier.
C17_Witness ==
    /\ MessageEvent
    /\ event.chat.type = "group"
    /\ Groups[EventKey].event_type = "message_received"
    /\ Groups[EventKey].last_activity = isoformat(event.readings[2])
    /\ Groups[EventKey].first_detected # Groups[EventKey].last_activity

-----------------------------------------------------------------------------
\* The chat ids of the groups and supergroups in the buffer.
BufferedGroupIds ==
    {event.buffer[i].id : i \in {j \in DOMAIN event.buffer : GroupTyped(event.buffer[j])}}

SavesOf(id) == {i \in DOMAIN event.saved : event.saved[i].chat_id = id}

\* The first buffered update of the chat.
FirstOf(id) ==
    event.buffer[CHOOSE i \in DOMAIN event.buffer :
                     /\ event.buffer[i].id = id /\ GroupTyped(event.buffer[i])
                     /\ \A j \in 1..(i - 1) :
                            ~(event.buffer[j].id = id /\ GroupTyped(event.buffer[j]))]

(* C18: in one startup scan save_group_info is called exactly once for     *)
(* each group or supergroup chat id in the buffer, with event_type         *)
(* "startup_scan" and the data of the first update of that chat, and for   *)
(* no other chat.                                                          *)
C18_ScanSavesEachGroupOnce ==
    ScanEvent =>
        /\ \A id \in BufferedGroupIds :
              /\ Cardinality(SavesOf(id)) = 1
              /\ str(id) \in DOMAIN Groups
              /\ Groups[str(id)].event_type = "startup_scan"
              /\ Groups[str(id)].title = title_or_default(FirstOf(id).title)
        /\ \A i \in DOMAIN event.saved :
              /\ event.saved[i].chat_id \in BufferedGroupIds
              /\ event.saved[i].event_type = "startup_scan"
        /\ Len(event.saved) = Cardinality(BufferedGroupIds)

\* The buffer holds two updates of the same supergroup, under two titles.
C18_Witness ==
    /\ ScanEvent
    /\ Len(event.buffer) = 2
    /\ event.buffer[1].id = -100123
    /\ event.buffer[2].id = -100123
    /\ event.buffer[1].title # event.buffer[2].title
    /\ Len(event.saved) = 1
    /\ Groups[str(-100123)].title = event.buffer[1].title

-----------------------------------------------------------------------------
(* C19: no step (membership update, message, startup scan, restart)        *)
(* removes a record or changes the first_detected of a record, in the      *)
(* store or in the file.                                                   *)
C19_FirstDetectedNeverChanges ==
    [][ /\ \A k \in DOMAIN Groups :
              /\ k \in DOMAIN Groups'
              /\ Groups'[k].first_detected = Groups[k].first_detected
        /\ \A k \in DOMAIN FileGroups :
              /\ k \in DOMAIN FileGroups'
              /\ FileGroups'[k].first_detected = FileGroups[k].first_detected ]_vars

\* A record created by the startup scan at time 1 was removed and then
\* refreshed by a message at time 3.
C19_Witness ==
    /\ MessageEvent
    /\ event.readings = <<3, 3, 3>>
    /\ EventKey \in DOMAIN Groups
    /\ Groups[EventKey].first_detected = isoformat(1)
    /\ Groups[EventKey].last_activity = isoformat(3)
    /\ Groups[EventKey].status = "active"

-----------------------------------------------------------------------------
(* C20: whenever no handler is running, the "groups" map of                *)
(* detected_groups.json equals the in-memory "groups" map, and once the    *)
(* file has been written the whole file equals the whole store.            *)
C20_FileEqualsStore ==
    /\ FileGroups = Groups
    /\ groups_file.state = "json" => groups_file.content = groups_data

\* The removal branch has just changed a record and written the file.
C20_Witness ==
    /\ RemoveEvent
    /\ EventKey \in DOMAIN Groups
    /\ Groups[EventKey].status = "removed"
    /\ groups_file.state = "json"
    /\ groups_file.content.groups[EventKey].status = "removed"
    /\ groups_file.content.last_updated = isoformat(event.readings[2])

-----------------------------------------------------------------------------
\* The message's own text after the command has been removed.
OwnText ==
    LET t == strip(Message.text)
    IN  IF startswith(t, CommandExplain) THEN strip(remove(t, CommandExplain)) ELSE t

\* The own text can be analysed: it is not empty and holds no trigger phrase.
OwnTextEligible == OwnText # <<>> /\ ~HasTrigger(OwnText)

\* get_text_from_message has returned in this invocation.
TextResolved == ResolverRan /\ pc \notin {"idle"} \cup Downloading /\ ~Truthy(image_data)

(* C22: whenever the message's own text, the command removed, is not empty *)
(* and eligible, get_text_from_message returns it and not the text of the  *)
(* replied-to message; the reply's text is returned only when the message  *)
(* yields no eligible text of its own.                                     *)
C22_DirectTextBeforeReplyText ==
    TextResolved =>
        /\ OwnTextEligible => text_to_analyze = OwnText
        /\ (text_to_analyze # <<>> /\ ~OwnTextEligible) =>
               (ReplyTo.present /\ text_to_analyze = strip(ReplyTo.text))
        /\ \A i \in DOMAIN calls :
               OwnTextEligible => calls[i].text = OwnText

\* Both texts exist and differ; the message's own text has been analysed.
C22_Witness ==
    /\ Finished
    /\ OwnTextEligible
    /\ ReplyTo.present /\ strip(ReplyTo.text) # <<>>
    /\ strip(ReplyTo.text) # OwnText
    /\ text_to_analyze = OwnText
    /\ Len(calls) = 1 /\ calls[1].fn = "analyze_text_with_openai"
    /\ calls[1].text = OwnText
    /\ Len(replies) = 2 /\ replies[2].ok /\ replies[2].text.msg = "explanation"

-----------------------------------------------------------------------------
\* The remote model call of this invocation raised.
RemoteFailed == \E i \in DOMAIN calls : calls[i].remote.raises

\* The attachment download of this invocation raised or returned nothing.
DownloadFailed == \E i \in DOMAIN downloads : downloads[i].outcome # "bytes"

(* C23: nothing is retried.  In one handler invocation there is at most    *)
(* one remote model call and at most one attachment download attempt, on   *)
(* every path, the failure paths included.                                 *)
C23_NoRetry ==
    /\ Len(calls) <= 1
    /\ Len(downloads) <= 1

\* The download raised and the remote call raised, each attempted once; the
\* invocation ended with the apology.
C23_Witness ==
    /\ Finished
    /\ downloads = <<[file |-> "message.photo", outcome |-> "raises"]>>
    /\ Len(calls) = 1 /\ RemoteFailed /\ DownloadFailed
    /\ calls[1].fn = "analyze_text_with_openai"
    /\ Len(replies) = 2 /\ replies[2].ok
    /\ replies[2].text.body = ApologyText

-----------------------------------------------------------------------------
\* The replies of this invocation whose text is an explanation.
ExplanationReplies == {i \in DOMAIN replies : replies[i].text.msg = "explanation"}

\* Content was resolved and nothing failed: every send returned and the
\* except clause was not entered.
Successful ==
    /\ Finished
    /\ ResolvedImage \/ ResolvedText
    /\ \A i \in DOMAIN replies : replies[i].ok /\ replies[i].text.msg # GenericError

(* C28: when content is resolved the replies come in a fixed order.  The   *)
(* status reply has been sent, and nothing else, when the remote model     *)
(* call starts; the explanation reply is sent only after that call has     *)
(* returned, as the second reply, carrying the call's result; a successful *)
(* invocation sends exactly two replies, status then explanation.          *)
C28_StatusThenExplanation ==
    /\ pc = "analyze" =>
          /\ calls = <<>>
          /\ replies = <<Reply(status_msg(handler, Kind), TRUE)>>
    /\ calls # <<>> => StatusSent
    /\ \A i \in ExplanationReplies :
          /\ i = 2
          /\ StatusSent
          /\ Len(calls) = 1
          /\ ~calls[1].result.raised
          /\ replies[i].text.body = calls[1].result.value
    /\ Successful =>
          replies = <<Reply(status_msg(handler, Kind), TRUE),
                      Reply(response_msg(handler, explanation), TRUE)>>

\* A successful invocation of the trigger handler on an image.
C28_Witness ==
    /\ Successful
    /\ handler = "handle_trigger_message"
    /\ ResolvedImage
    /\ Len(calls) = 1 /\ calls[1].result.value = "content 1"
    /\ replies = <<Reply(status_msg(handler, "image"), TRUE),
                   Reply(response_msg(handler, "content 1"), TRUE)>>

-----------------------------------------------------------------------------
\* An attachment was selected and its download ended without bytes: it
\* raised or returned nothing.
ImageYieldedNothing ==
    /\ selected \notin {"not called", "raised", "none"}
    /\ pc \notin Downloading
    /\ downloads # <<>>
    /\ downloads[1].outcome \in {"raises", "get_file raises", "empty"}

\* The text the update offers: the eligible own text, else the text of the
\* replied-to message; <<>> when there is neither.
OfferedText ==
    IF OwnTextEligible THEN OwnText
    ELSE IF ReplyTo.present THEN strip(ReplyTo.text)
    ELSE <<>>

(* C30: when an image attachment is selected but yields no bytes (the      *)
(* download raises or returns nothing) the handler does not stop with the  *)
(* not-found reply: it goes on to text resolution, and an eligible own     *)
(* text or a reply text, if there is one, is the text handed to            *)
(* analyze_text_with_openai as soon as the status reply has been sent.     *)
C30_FailedImageFallsBackToText ==
    ImageYieldedNothing =>
        /\ ~Truthy(image_data)
        /\ text_to_analyze = OfferedText
        /\ NotFoundSent => OfferedText = <<>>
        /\ \A i \in DOMAIN calls :
               /\ calls[i].fn = "analyze_text_with_openai"
               /\ calls[i].text = OfferedText
        /\ (Finished /\ OfferedText # <<>>) =>
               /\ replies[1].text = status_msg(handler, "text")
               /\ Len(calls) = 1 <=> StatusSent

\* The reply's photo came back empty and the reply's text was analysed.
C30_Witness ==
    /\ Finished
    /\ ImageYieldedNothing
    /\ downloads = <<[file |-> "reply.photo", outcome |-> "empty"]>>
    /\ image_data = EmptyBytes
    /\ OfferedText # <<>> /\ OfferedText = strip(ReplyTo.text)
    /\ Len(calls) = 1 /\ calls[1].fn = "analyze_text_with_openai"
    /\ calls[1].text = OfferedText
    /\ Len(replies) = 2 /\ replies[2].ok /\ replies[2].text.msg = "explanation"

-----------------------------------------------------------------------------
\* An /explain command, or a message with a trigger phrase, is being handled.
Pending ==
    /\ handler \in {"explain_command", "handle_trigger_message"}
    /\ pc \notin {"idle", "done"}

\* The invocation has ended and its last reply is an explanation, the
\* not-found message or the generic error message.
FinalReplySent ==
    /\ Finished
    /\ replies # <<>>
    /\ replies[Len(replies)].ok
    /\ replies[Len(replies)].text.msg \in {"explanation", "not found", GenericError}

(* C29: provided every network call eventually returns or raises and the   *)
(* sends of replies succeed, every /explain command and every message with *)
(* a trigger phrase eventually receives a final reply: an explanation, the *)
(* not-found message or the generic error message.  No invocation of       *)
(* explain_command, and no invocation that ran the resolver, ends without  *)
(* one.                                                                    *)
C29_EventuallyFinalReply ==
    /\ Pending ~> FinalReplySent
    /\ []((Finished /\ ResolverRan) => FinalReplySent)
    /\ []((Finished /\ handler = "explain_command") => FinalReplySent)

-----------------------------------------------------------------------------
\* The records of a groups map that carry removed_at, and those whose status
\* is "removed".
WithRemovedAt(groups) == {k \in DOMAIN groups : HasRemovedAt(groups[k])}

StatusRemoved(groups) == {k \in DOMAIN groups : groups[k].status = "removed"}

(* C25: in every state of a store that started empty, in memory and in the *)
(* file, a record carries removed_at if and only if its status is          *)
(* "removed"; a record with status "active" never carries removed_at, and  *)
(* there is no third status.                                               *)
C25_RemovedAtIffRemoved ==
    /\ WithRemovedAt(Groups) = StatusRemoved(Groups)
    /\ WithRemovedAt(FileGroups) = StatusRemoved(FileGroups)
    /\ \A k \in DOMAIN Groups :
          /\ Groups[k].status \in {"active", "removed"}
          /\ Groups[k].status = "active" => ~HasRemovedAt(Groups[k])
          /\ Groups[k].status = "removed" => Groups[k].removed_at # None

\* A record that was marked removed has been saved again by a message: it
\* is active and carries no removed_at any more.
C25_Witness ==
    /\ MessageEvent
    /\ event.was = "removed"
    /\ EventKey \in DOMAIN Groups
    /\ Groups[EventKey].status = "active"
    /\ ~HasRemovedAt(Groups[EventKey])
    /\ FileGroups = Groups

-----------------------------------------------------------------------------
\* The fields save_group_info gives a record.
SavedFields ==
    {"id", "title", "type", "first_detected", "last_activity", "event_type", "status"}

(* C26: every save_group_info call of a handled event (bot_added,          *)
(* message_received or startup_scan) leaves the chat's record, in the      *)
(* store and in the file, as a whole new record: status "active", exactly  *)
(* the fields of a saved record (no removed_at), the event's type, the     *)
(* time of the call, and the first_detected of the record it replaces;     *)
(* this whatever the status of the record was before.                      *)
C26_SaveMakesActive ==
    [][ Handled =>
          \A i \in DOMAIN event'.saved :
              LET k == str(event'.saved[i].chat_id)
              IN  /\ k \in DOMAIN Groups'
                  /\ Groups'[k].status = "active"
                  /\ DOMAIN Groups'[k] = SavedFields
                  /\ Groups'[k].event_type = event'.saved[i].event_type
                  /\ Groups'[k].last_activity = isoformat(event'.readings[3 * i - 1])
                  /\ k \in DOMAIN Groups =>
                        Groups'[k].first_detected = Groups[k].first_detected
                  /\ k \in DOMAIN FileGroups' /\ FileGroups'[k] = Groups'[k] ]_vars

\* The startup scan recorded the chat at time 1, the bot was removed at
\* time 2, and a plain message at time 3 made the record active again.
C26_Witness ==
    /\ MessageEvent
    /\ event.readings = <<3, 3, 3>>
    /\ event.was = "removed"
    /\ event.saved = <<Saved(event.chat, "message_received")>>
    /\ Groups[EventKey].status = "active"
    /\ Groups[EventKey].event_type = "message_received"
    /\ Groups[EventKey].first_detected = isoformat(1)
    /\ Groups[EventKey].last_activity = isoformat(3)
    /\ DOMAIN Groups[EventKey] = SavedFields

-----------------------------------------------------------------------------
\* The membership update handled last is an add transition, or a remove
\* transition of a chat that had a record.
ChangesStore ==
    \/ AddEvent
    \/ RemoveEvent /\ event.was # None

(* C27: bot_added_handler leaves the store and the file as they are for    *)
(* every membership update that is neither an add transition nor a remove  *)
(* transition of a chat that has a record: a removal for a chat without    *)
(* record, a change between member and administrator, a transition to      *)
(* kicked or restricted.                                                   *)
C27_OtherTransitionsChangeNothing ==
    [][ ( /\ Handled
          /\ event'.handler = "bot_added_handler"
          /\ ~ChangesStore' ) =>
            /\ groups_data' = groups_data
            /\ groups_file' = groups_file
            /\ event'.readings = <<>> ]_vars

\* The bot was kicked from a chat whose record is active: the record stays
\* active and the file keeps the stamp of an earlier save.
C27_Witness ==
    /\ event.handler = "bot_added_handler"
    /\ event.old_status = "administrator"
    /\ event.new_status = "kicked"
    /\ event.was = "active"
    /\ Groups[EventKey].status = "active"
    /\ event.readings = <<>>
    /\ groups_data.last_updated # None
    /\ groups_file.state = "json"
    /\ groups_file.content = groups_data

-----------------------------------------------------------------------------
\* The tasks that have mutated the store and not yet written the file.
MidHandler == {i \in DOMAIN tasks : tasks[i].pc = "mutated"}

AllDone == tasks # <<>> /\ \A i \in DOMAIN tasks : tasks[i].pc = "done"

\* The chats for which a finished task called save_group_info.
SavedKeys ==
    {str(tasks[i].update.chat.id) :
        i \in {j \in DOMAIN tasks : tasks[j].pc = "done" /\ tasks[j].saved}}

(* C24: within one detector process, for every order in which the event    *)
(* loop runs handler invocations that were dispatched together, the        *)
(* in-memory mutation and the file write of one handler are not            *)
(* interleaved with those of another (a task that has mutated the store is *)
(* the only such task, and the next step is its write), and no saved       *)
(* record is lost: the file holds a record for every chat a finished       *)
(* handler saved, and once all handlers have finished it holds the store.  *)
C24_NoLostRecord ==
    /\ [](Cardinality(MidHandler) <= 1)
    /\ [](SavedKeys \subseteq DOMAIN FileGroups)
    /\ [](AllDone => (FileGroups = Groups /\ SavedKeys \subseteq DOMAIN Groups))
    /\ [][ \A i \in MidHandler : tasks'[i].pc = "done" ]_vars

\* Two handlers saved two chats, the second task first; the file holds
\* both records.
C24_Witness ==
    /\ AllDone
    /\ tasks[1].saved /\ tasks[2].saved
    /\ tasks[1].t = <<3, 3, 4>> /\ tasks[2].t = <<1, 2, 2>>
    /\ tasks[1].update.chat.id # tasks[2].update.chat.id
    /\ Cardinality(DOMAIN FileGroups) = 2
    /\ groups_file.state = "json"
    /\ groups_file.content = groups_data
    /\ groups_data.last_updated = isoformat(4)

-----------------------------------------------------------------------------
(* Vocabulary of the exporters' properties: reading the output back.       *)

\* The lines of a text file, as reading it line by line gives them, without
\* their line feeds.
RECURSIVE Lines(_)
Lines(text) ==
    IF text = <<>> THEN <<>>
    ELSE IF \E k \in 1..Len(text) : text[k] = 10
    THEN LET k == CHOOSE k \in 1..Len(text) :
                      text[k] = 10 /\ \A j \in 1..(k - 1) : text[j] # 10
         IN  <<SubSeq(text, 1, k - 1)>> \o Lines(SubSeq(text, k + 1, Len(text)))
    ELSE <<text>>

\* "message_id": as it stands in a line before the value
MessageIdKey == dumps_str(Key("message_id")) \o <<58, 32>>

\* The number a run of decimal digits at the head of s stands for.
RECURSIVE DigitsValue(_, _)
DigitsValue(s, acc) ==
    IF s # <<>> /\ Head(s) \in 48..57
    THEN DigitsValue(Tail(s), 10 * acc + (Head(s) - 48))
    ELSE acc

\* metadata.message_id of a line: the number after the first "message_id":
\* of the line, -1 when the line has no such key or no number after it.
MessageIdOf(line) ==
    IF ~contains(line, MessageIdKey) THEN 0 - 1
    ELSE LET i == CHOOSE i \in 1..Len(line) :
                      /\ SubSeq(line, i, i + Len(MessageIdKey) - 1) = MessageIdKey
                      /\ \A j \in 1..(i - 1) :
                            SubSeq(line, j, j + Len(MessageIdKey) - 1) # MessageIdKey
             rest == SubSeq(line, i + Len(MessageIdKey), Len(line))
         IN  IF rest # <<>> /\ Head(rest) \in 48..57 THEN DigitsValue(rest, 0)
             ELSE 0 - 1

\* The messages of the exported chat among the objects Telegram delivered,
\* in their order.
SourceMessages ==
    SelectSeq(history, LAMBDA u : u.object = "message" /\ u.chat = CHAT_ID)

TextOrPhoto(m) == m.media \in {"none", "photo"}

ExportDone == export_pc = "done"

\* The batch reached the loop of the exporter: the fetch did not fail after
\* it had delivered a message.
BatchFetched == messages = filter_messages(script, history)

\* C21: when an export run is over whose batch holds N >= 1 messages of the
\* exported chat, each of them text-only or photo-bearing, the JSON array
\* has exactly N records, the JSONL file has exactly N lines, and the
\* metadata.message_id of the i-th line is the id of the i-th source
\* message, whatever the text of the messages, whether or not the photos
\* could be downloaded and decoded, and whatever OpenAI said of them.  (With
\* N = 0, or when fetching the batch raised, no file is written.)
C21_ExportRoundTrip ==
    (/\ ExportDone
     /\ BatchFetched
     /\ SourceMessages # <<>>
     /\ \A i \in 1..Len(SourceMessages) : TextOrPhoto(SourceMessages[i]))
    => /\ json_file.written
       /\ Len(json_file.array) = Len(SourceMessages)
       /\ jsonl_file.written
       /\ Len(Lines(jsonl_file.text)) = Len(SourceMessages)
       /\ \A i \in 1..Len(SourceMessages) :
             MessageIdOf(Lines(jsonl_file.text)[i]) = SourceMessages[i].message_id

\* An export is over of a text-only message whose text has a line feed and
\* a quote, followed by a photo under another id that could not be turned
\* into an image; both files are written.
C21_Witness ==
    /\ ExportDone
    /\ Len(SourceMessages) > 1
    /\ SourceMessages[1].media = "none"
    /\ contains(SourceMessages[1].text, <<10>>)
    /\ contains(SourceMessages[1].text, <<34>>)
    /\ SourceMessages[Len(SourceMessages)].media = "photo"
    /\ SourceMessages[Len(SourceMessages)].message_id # SourceMessages[1].message_id
    /\ Len(exported_messages) = Len(SourceMessages)
    /\ exported_messages[Len(exported_messages)].image_base64 = <<>>
    /\ json_file.written
    /\ jsonl_file.written

====
